---- MODULE Spec2Model ----
(***************************************************************************)
(* Motion model of the quiz minigames: the tower-defense path follower     *)
(* (Enemy), the projectiles (space/cowboy Bullet, tower-defense            *)
(* Projectile), the three firing sites and the space game's frame loop.    *)
(*                                                                         *)
(* Arithmetic.  The code computes with floats; the model computes with     *)
(* integers on inputs for which the float arithmetic is exact:             *)
(*   - lengths of an Enemy are counted in units of 1/upp pixel, upp being  *)
(*     a field of the modelled enemy (1: whole pixels, 2: half pixels,     *)
(*     1000000: the unit is the arrival tolerance 1e-6 of update);         *)
(*   - every square root is taken of a perfect square and every quotient   *)
(*     is exact; Hypot and Div have no value otherwise, so that a state    *)
(*     in which the model would have to round stops the check.             *)
(***************************************************************************)
EXTENDS Integers, Sequences, FiniteSets, TLC

VARIABLES
    enemy,      \* the tower-defense Enemy (sprites.py), a record
    call,       \* the last operation called on the enemy and its argument
    ticks,      \* number of updates of the constant-dt walk (SpecLoop)
    dtc,        \* the constant dt of that walk, 0 outside SpecLoop
    shot,       \* the projectile of one firing site (Bullet or Projectile)
    game        \* the space game (SpaceGame of space_game/game.py), a record

vars == <<enemy, call, ticks, dtc, shot, game>>

(***************************************************************************)
(* Bounds of the model.                                                    *)
(***************************************************************************)
MaxDt == 2          \* dt of one update ranges over 1..MaxDt time units
MaxTicks == 12      \* length of a constant-dt walk

(***************************************************************************)
(* Helpers: exact arithmetic.                                              *)
(***************************************************************************)
Abs(x) == IF x < 0 THEN -x ELSE x

\* a / b where the quotient is an integer (no value otherwise)
Div(a, b) == IF a % b = 0 THEN a \div b ELSE CHOOSE q \in {} : FALSE

\* math.hypot(dx, dy) where dx*dx + dy*dy is a perfect square
Hypot(dx, dy) ==
    IF dy = 0 THEN Abs(dx)
    ELSE IF dx = 0 THEN Abs(dy)
    ELSE CHOOSE r \in 0..(Abs(dx) + Abs(dy)) : r * r = dx * dx + dy * dy

\* int(v) of Python for the value u/q: truncation toward zero
Trunc(u, q) == IF u >= 0 THEN u \div q ELSE -((-u) \div q)

\* round(v) of Python for the value u/q: nearest integer, ties to even
Round(u, q) ==
    LET f == u \div q          \* floor
        r == u % q             \* 0 <= r < q
    IN  IF 2 * r < q THEN f
        ELSE IF 2 * r > q THEN f + 1
        ELSE IF f % 2 = 0 THEN f ELSE f + 1

(***************************************************************************)
(* Tower-defense Enemy (path follower).                                    *)
(***************************************************************************)
None == -1          \* goal_index = None

\* the enemies the model constructs: path, speed (units per time unit) and
\* the length unit (upp units per pixel)
SquarePath == << <<0, 0>>, <<10, 0>>, <<10, 10>>, <<0, 10>> >>
RectPath == << <<0, 0>>, <<40, 0>>, <<40, 20>>, <<0, 20>> >>
HalfPath == << <<1, 1>>, <<21, 1>>, <<21, 11>>, <<1, 11>> >>
MicroPath == << <<0, 0>>, <<6, 0>> >>
TrianglePath == << <<0, 0>>, <<60, 80>>, <<60, 0>> >>
DupPath == << <<0, 0>>, <<10, 0>>, <<10, 0>>, <<0, 0>> >>
OnePath == << <<5, 5>> >>
EmptyPath == << >>

Scenarios ==
    { [path |-> SquarePath,   speed |-> 10, upp |-> 1],
      [path |-> RectPath,     speed |-> 10, upp |-> 1],
      [path |-> RectPath,     speed |-> 5,  upp |-> 1],
      [path |-> HalfPath,     speed |-> 5,  upp |-> 2],
      [path |-> MicroPath,    speed |-> 5,  upp |-> 1000000],
      [path |-> TrianglePath, speed |-> 25, upp |-> 1],
      [path |-> DupPath,      speed |-> 10, upp |-> 1],
      [path |-> OnePath,      speed |-> 10, upp |-> 1],
      [path |-> EmptyPath,    speed |-> 10, upp |-> 1] }

\* goal positions handed to set_rush_to_goal
Goals ==
    { <<0, 0>>, <<5, 5>>, <<10, 0>>, <<10, 10>>, <<9, 12>>, <<40, 20>>,
      <<20, 10>>, <<60, 0>>, <<60, 80>>, <<-3, 7>>, <<6, 0>>, <<3, 0>> }

\* thresholds handed to reached_goal_on_path, in length units
Thresholds == {0, 1, 5, 12}

Dts == 1..MaxDt

\* Enemy.__init__
EnemyNew(sc) ==
    LET start == IF Len(sc.path) > 0 THEN sc.path[1] ELSE <<0, 0>>
    IN  [ path |-> sc.path, speed |-> sc.speed, upp |-> sc.upp,
          path_index |-> 0, rush |-> FALSE, goal_index |-> None,
          dead |-> FALSE, pos |-> start,
          rect |-> <<Trunc(start[1], sc.upp), Trunc(start[2], sc.upp)>> ]

\* next_idx of Enemy.update, two waypoints ahead
NextIdxSkip(e) == (e.path_index + 2) % Len(e.path)

\* next_idx of Enemy.update
NextIdx(e) == (e.path_index + 1) % Len(e.path)

\* speed of one update: self.speed, times 1.8 while rushing
StepSpeed(e) == IF e.rush THEN Div(e.speed * 18, 10) ELSE e.speed

\* dist <= 1e-6, dist being d length units of 1/upp pixel
Arrived(d, upp) == d * 1000000 <= upp

\* the arrival test of update with a strict comparison
ReachesStrict(step, dist) == step > dist

\* the arrival test of update: step >= dist
Reaches(step, dist) == step >= dist

\* the arrival assignment, leaving rush mode at the goal waypoint
ArriveAtUnrush(e, idx) ==
    IF e.rush /\ idx = e.goal_index
      THEN [e EXCEPT !.path_index = idx, !.rush = FALSE, !.goal_index = None]
      ELSE [e EXCEPT !.path_index = idx]

\* the arrival assignment of update: self.path_index = cur_target_idx
ArriveAt(e, idx) == [e EXCEPT !.path_index = idx]

\* rect.centerx/centery = int(pos) at the end of Enemy.update
EnemyRect(e) == <<Trunc(e.pos[1], e.upp), Trunc(e.pos[2], e.upp)>>

\* Enemy.update(dt)
EnemyUpdated(e, dt) ==
    IF e.dead \/ Len(e.path) = 0 THEN e
    ELSE
      LET next_idx == NextIdx(e)
          t == e.path[next_idx + 1]
          dx == t[1] - e.pos[1]
          dy == t[2] - e.pos[2]
          dist == Hypot(dx, dy)
          step == StepSpeed(e) * dt
          moved ==
            IF Arrived(dist, e.upp)
              THEN ArriveAt(e, next_idx)
            ELSE IF Reaches(step, dist)
              THEN ArriveAt([e EXCEPT !.pos = t], next_idx)
            ELSE [e EXCEPT !.pos = << e.pos[1] + Div(dx * step, dist),
                                      e.pos[2] + Div(dy * step, dist) >>]
      IN  [moved EXCEPT !.rect = EnemyRect(moved)]

\* squared distance of waypoint i (0-based) to the goal
GoalD2(path, i, g) ==
    (path[i + 1][1] - g[1]) * (path[i + 1][1] - g[1])
  + (path[i + 1][2] - g[2]) * (path[i + 1][2] - g[2])

\* the loop of set_rush_to_goal with d <= bestd: the last of the nearest
RECURSIVE BestScanLast(_, _, _)
BestScanLast(path, g, k) ==
    IF k = 0 THEN <<0, None>>
    ELSE LET prev == BestScanLast(path, g, k - 1)
             d == GoalD2(path, k - 1, g)
         IN  IF prev[2] = None \/ d <= prev[2] THEN <<k - 1, d>> ELSE prev

\* the loop of set_rush_to_goal over path[0..k-1]: <<best, bestd>>
RECURSIVE BestScan(_, _, _)
BestScan(path, g, k) ==
    IF k = 0 THEN <<0, None>>
    ELSE LET prev == BestScan(path, g, k - 1)
             d == GoalD2(path, k - 1, g)
         IN  IF prev[2] = None \/ d < prev[2] THEN <<k - 1, d>> ELSE prev

\* Enemy.set_rush_to_goal(goal_pos)
EnemyRushToGoal(e, g) ==
    IF Len(e.path) = 0
      THEN [e EXCEPT !.rush = TRUE, !.goal_index = None]
      ELSE [e EXCEPT !.rush = TRUE,
                     !.goal_index = BestScan(e.path, g, Len(e.path))[1]]

\* Enemy.stop_rush()
EnemyStopRush(e) == [e EXCEPT !.rush = FALSE, !.goal_index = None]

\* Enemy.reached_goal_on_path(threshold)
ReachedGoalOnPath(e, threshold) ==
    IF ~e.rush \/ e.goal_index = None THEN FALSE
    ELSE LET g == e.path[e.goal_index + 1]
             dx == e.pos[1] - g[1]
             dy == e.pos[2] - g[2]
         IN  dx * dx + dy * dy <= threshold * threshold

(***************************************************************************)
(* Specification of one Enemy: any interleaving of its operations.         *)
(***************************************************************************)
NoCall == [op |-> "new", arg |-> <<>>]
NoShot == [kind |-> "none", alive |-> FALSE]
NoGame == [state |-> "none"]

InitEnemy ==
    /\ \E sc \in Scenarios : enemy = EnemyNew(sc)
    /\ call = NoCall
    /\ ticks = 0
    /\ dtc = 0
    /\ shot = NoShot
    /\ game = NoGame

Update ==
    /\ \E dt \in Dts :
         /\ enemy' = EnemyUpdated(enemy, dt)
         /\ call' = [op |-> "update", arg |-> <<dt, enemy.path_index>>]
    /\ UNCHANGED <<ticks, dtc, shot, game>>

SetRushToGoal ==
    /\ \E g \in Goals :
         /\ enemy' = EnemyRushToGoal(enemy, g)
         /\ call' = [op |-> "set_rush_to_goal", arg |-> g]
    /\ UNCHANGED <<ticks, dtc, shot, game>>

StopRush ==
    /\ enemy' = EnemyStopRush(enemy)
    /\ call' = [op |-> "stop_rush", arg |-> <<>>]
    /\ UNCHANGED <<ticks, dtc, shot, game>>

NextEnemy == Update \/ SetRushToGoal \/ StopRush

SpecEnemy == InitEnemy /\ [][NextEnemy]_vars

(***************************************************************************)
(* Specification of a looping walk: one enemy updated with a constant dt.  *)
(***************************************************************************)
LoopScenarios ==
    { sc \in Scenarios : Len(sc.path) >= 2 /\ sc.path # DupPath }
    \cup { [path |-> MicroPath, speed |-> 1, upp |-> 1000000],
           [path |-> MicroPath, speed |-> 3, upp |-> 1000000] }

InitLoop ==
    /\ \E sc \in LoopScenarios : enemy = EnemyNew(sc)
    /\ call = NoCall
    /\ ticks = 0
    /\ dtc \in Dts
    /\ shot = NoShot
    /\ game = NoGame

LoopTick ==
    /\ ticks < MaxTicks
    /\ enemy' = EnemyUpdated(enemy, dtc)
    /\ call' = [op |-> "update", arg |-> <<dtc, enemy.path_index>>]
    /\ ticks' = ticks + 1
    /\ UNCHANGED <<dtc, shot, game>>

NextLoop == LoopTick

SpecLoop == InitLoop /\ [][NextLoop]_vars

(***************************************************************************)
(* Projectiles: the space/cowboy Bullet, the tower-defense Projectile and  *)
(* the three places that aim them.  Positions and velocities of a          *)
(* projectile are floats of the code; the model counts them in Q-ths of a  *)
(* pixel.  Rect coordinates are whole pixels.                              *)
(***************************************************************************)
Q == 5
SCREEN_W == 800
SCREEN_H == 600
BULLET_SPEED_MAG == 12
COWBOY_SPEED == 10
TOWER_SPEED == 400
MARGIN == 50

\* float(v) of a whole number of pixels
Fix(px) == px * Q

\* the aim of the space game's correct-answer branch: <<vx, vy>>
SpaceAim(start, target) ==
    LET dx == target[1] - start[1]
        dy == target[2] - start[2]
        dist == Hypot(dx, dy)
    IN  IF 10 * dist <= 1
          THEN <<0, -Fix(BULLET_SPEED_MAG)>>
          ELSE <<Div(dx * Fix(BULLET_SPEED_MAG), dist),
                 Div(dy * Fix(BULLET_SPEED_MAG), dist)>>

\* the aim of the cowboy game's correct-answer branch: <<vx, vy>>
CowboyAim(start, target) ==
    LET dx == target[1] - start[1]
        dy == target[2] - start[2]
        dist == Hypot(dx, dy)
    IN  IF 10 * dist <= 1
          THEN <<0, -Fix(COWBOY_SPEED)>>
          ELSE <<Div(dx * Fix(COWBOY_SPEED), dist),
                 Div(dy * Fix(COWBOY_SPEED), dist)>>

\* the aim with the components exchanged
ProjectileAimSwapped(start, target, speed) ==
    LET dx == target[1] - start[1]
        dy == target[2] - start[2]
        dist == IF Hypot(dx, dy) = 0 THEN 1 ELSE Hypot(dx, dy)
    IN  <<Div(dy * Fix(speed), dist), Div(dx * Fix(speed), dist)>>

\* the aim of Projectile.__init__: <<vx, vy>> in Q-ths of a pixel per second
ProjectileAim(start, target, speed) ==
    LET dx == target[1] - start[1]
        dy == target[2] - start[2]
        dist == IF Hypot(dx, dy) = 0 THEN 1 ELSE Hypot(dx, dy)
    IN  <<Div(dx * Fix(speed), dist), Div(dy * Fix(speed), dist)>>

\* pygame Rect of size w x h: its edges from its centre
RectLeft(cx, w) == cx - (w \div 2)
RectRight(cx, w) == cx - (w \div 2) + w
RectTop(cy, h) == cy - (h \div 2)
RectBottom(cy, h) == cy - (h \div 2) + h

\* Bullet.__init__(x, y, vx, vy) with a surface of size w x h; start and
\* target record what the firing site aimed from and at
BulletNew(kind, start, target, v, speed, w, h) ==
    [ kind |-> kind, alive |-> TRUE, start |-> start, target |-> target,
      speed |-> speed, w |-> w, h |-> h,
      cx |-> start[1], cy |-> start[2],
      posx |-> Fix(start[1]), posy |-> Fix(start[2]),
      vx |-> v[1], vy |-> v[2] ]

\* the bounds test of Bullet.update without the margin
OffScreenNoMargin(cx, cy, w, h) ==
    \/ RectBottom(cy, h) < 0
    \/ RectTop(cy, h) > SCREEN_H
    \/ RectLeft(cx, w) > SCREEN_W
    \/ RectRight(cx, w) < 0

\* the bounds test of Bullet.update
OffScreen(cx, cy, w, h) ==
    \/ RectBottom(cy, h) < -MARGIN
    \/ RectTop(cy, h) > SCREEN_H + MARGIN
    \/ RectLeft(cx, w) > SCREEN_W + MARGIN
    \/ RectRight(cx, w) < -MARGIN

\* Bullet.update() with the position taken back from the rect
BulletUpdatedFromRect(b) ==
    LET px == Fix(b.cx) + b.vx
        py == Fix(b.cy) + b.vy
        cx == Trunc(px, Q)
        cy == Trunc(py, Q)
    IN  [b EXCEPT !.posx = px, !.posy = py, !.cx = cx, !.cy = cy,
                  !.alive = ~OffScreen(cx, cy, b.w, b.h)]

\* Bullet.update()
BulletUpdated(b) ==
    LET px == b.posx + b.vx
        py == b.posy + b.vy
        cx == Trunc(px, Q)
        cy == Trunc(py, Q)
    IN  [b EXCEPT !.posx = px, !.posy = py, !.cx = cx, !.cy = cy,
                  !.alive = ~OffScreen(cx, cy, b.w, b.h)]

\* Projectile.__init__(start_pos, target_pos, speed), surface 8 x 8
ProjectileNew(start, target, speed) ==
    LET v == ProjectileAim(start, target, speed)
    IN  [ kind |-> "td", alive |-> TRUE, start |-> start, target |-> target,
          speed |-> speed, w |-> 8, h |-> 8,
          cx |-> Trunc(Fix(start[1]), Q), cy |-> Trunc(Fix(start[2]), Q),
          posx |-> Fix(start[1]), posy |-> Fix(start[2]),
          vx |-> v[1], vy |-> v[2] ]

\* an update that flies on when the step is exactly the remaining distance
ProjectileUpdatedStrict(p, ms) ==
    LET step_x == Div(p.vx * ms, 1000)
        step_y == Div(p.vy * ms, 1000)
        dx == Fix(p.target[1]) - p.posx
        dy == Fix(p.target[2]) - p.posy
        dist == Hypot(dx, dy)
    IN  IF Hypot(step_x, step_y) > dist
          THEN [p EXCEPT !.alive = FALSE]
          ELSE LET px == p.posx + step_x
                   py == p.posy + step_y
               IN  [p EXCEPT !.posx = px, !.posy = py,
                             !.cx = Trunc(px, Q), !.cy = Trunc(py, Q)]

\* Projectile.update(dt), dt given in milliseconds (dt seconds = ms / 1000)
ProjectileUpdated(p, ms) ==
    LET step_x == Div(p.vx * ms, 1000)
        step_y == Div(p.vy * ms, 1000)
        dx == Fix(p.target[1]) - p.posx
        dy == Fix(p.target[2]) - p.posy
        dist == Hypot(dx, dy)
    IN  IF Hypot(step_x, step_y) >= dist
          THEN [p EXCEPT !.alive = FALSE]
          ELSE LET px == p.posx + step_x
                   py == p.posy + step_y
               IN  [p EXCEPT !.posx = px, !.posy = py,
                             !.cx = Trunc(px, Q), !.cy = Trunc(py, Q)]

\* where the model fires from, and the offsets of the targets
Starts == { <<400, 550>>, <<20, 30>> }
Offsets ==
    { <<0, 0>>, <<0, -60>>, <<0, 60>>, <<60, 0>>, <<-60, 0>>,
      <<30, -40>>, <<-30, -40>>, <<40, 30>>, <<-40, 30>>, <<3, -4>>,
      <<-4, -3>>, <<33, 44>> }
BulletSizes == { <<6, 12>>, <<10, 18>> }

\* the projectiles the three firing sites create
Shots ==
    { BulletNew("space", s, <<s[1] + o[1], s[2] + o[2]>>,
                SpaceAim(s, <<s[1] + o[1], s[2] + o[2]>>),
                BULLET_SPEED_MAG, z[1], z[2]) :
        s \in Starts, o \in Offsets, z \in BulletSizes }
    \cup
    { BulletNew("cowboy", s, <<s[1] + o[1], s[2] + o[2]>>,
                CowboyAim(s, <<s[1] + o[1], s[2] + o[2]>>),
                COWBOY_SPEED, z[1], z[2]) :
        s \in Starts, o \in Offsets, z \in BulletSizes }
    \cup
    { ProjectileNew(s, <<s[1] + o[1], s[2] + o[2]>>, TOWER_SPEED) :
        s \in Starts, o \in Offsets }

\* dt of Projectile.update in milliseconds
DtMs == { 5 * k : k \in Dts }

(***************************************************************************)
(* Specification of one projectile from its creation to its destruction.   *)
(***************************************************************************)
InitShots ==
    /\ enemy = EnemyNew([path |-> EmptyPath, speed |-> 10, upp |-> 1])
    /\ call = NoCall
    /\ ticks = 0
    /\ dtc = 0
    /\ shot \in Shots
    /\ game = NoGame

UpdateBullet ==
    /\ shot.kind \in {"space", "cowboy"}
    /\ shot.alive
    /\ shot' = BulletUpdated(shot)
    /\ UNCHANGED <<enemy, call, ticks, dtc, game>>

UpdateProjectile ==
    /\ shot.kind = "td"
    /\ shot.alive
    /\ \E ms \in DtMs : shot' = ProjectileUpdated(shot, ms)
    /\ UNCHANGED <<enemy, call, ticks, dtc, game>>

NextShots == UpdateBullet \/ UpdateProjectile

SpecShots == InitShots /\ [][NextShots]_vars

(***************************************************************************)
(* Specification of the moving sprites together: an enemy on its path or   *)
(* a projectile in flight.                                                 *)
(***************************************************************************)
InitMoving ==
    /\ call = NoCall
    /\ game = NoGame
    /\ ticks = 0
    /\ dtc = 0
    /\ \/ shot = NoShot /\ \E sc \in Scenarios : enemy = EnemyNew(sc)
       \/ shot \in Shots
          /\ enemy = EnemyNew([path |-> EmptyPath, speed |-> 10, upp |-> 1])

NextMoving == Update \/ UpdateBullet \/ UpdateProjectile

SpecMoving == InitMoving /\ [][NextMoving]_vars

(***************************************************************************)
(* The space game (space_game/game.py).  One step of the model is one      *)
(* frame of run(): the mouse event, the two timers, the update of the      *)
(* state the frame is in ("playing" or "asking") and the restart key.      *)
(* Rect coordinates are whole pixels, as pygame keeps them; a float added  *)
(* to a Rect coordinate is truncated toward zero.  The horizontal moves    *)
(* are counted in thousandths of a pixel, the descent in session_time_ms-  *)
(* ths.  Bullets are the Bullet above, with the id of the enemy they were  *)
(* aimed at.  The enemy speed multiplier of the settings is 1.0.  Sounds,  *)
(* music, fonts and the muzzle flash are drawn or played, never read       *)
(* back, and are left out.  Three fields of the record observe the run:    *)
(* frame (the number of frames), input (the inputs of the last frame) and  *)
(* hit (the collision path on which the last frame registered a hit).      *)
(***************************************************************************)
MaxFrames == 52

ENEMY_W == 40
ENEMY_H == 30
ENEMY_GAP == 10
COLS == 6
ENEMIES_PER_WAVE == 18
ENEMY_INITIAL_TOP == 50
ENEMY_SPEED_MILLI == 500
PLAYER_W == 50
PLAYER_H == 20
PLAYER_SPEED == 6
BULLET_W == 6
BULLET_H == 12
MIN_RADIUS == 14
HIT_SCORE == 100
BOUNCE_DROP_PLAYING == 10
BOUNCE_DROP_ASKING == 5

Finished == {"won", "game_over"}

Max(a, b) == IF a >= b THEN a ELSE b
Min(a, b) == IF a <= b THEN a ELSE b

\* player.rect.top and player.rect.centerx: Player(SCREEN_W // 2,
\* SCREEN_H - 40) has its centre there and never moves vertically
PlayerTop == (SCREEN_H - 40) - (PLAYER_H \div 2)
PlayerStartX == (SCREEN_W \div 2) - (PLAYER_W \div 2)
PlayerCenterX(g) == g.player_x + (PLAYER_W \div 2)

\* edges and centre of an enemy's rect
EnemyRight(e) == e.x + e.w
EnemyBottom(e) == e.y + e.h
EnemyCenterX(e) == e.x + (e.w \div 2)
EnemyCenterY(e) == e.y + (e.h \div 2)

\* the elements of a sequence
Range(s) == { s[i] : i \in 1..Len(s) }

\* the sprites of s whose id is not in dead (kill() of the others)
RECURSIVE Without(_, _)
Without(s, dead) ==
    IF s = <<>> THEN <<>>
    ELSE IF Head(s).id \in dead THEN Without(Tail(s), dead)
    ELSE <<Head(s)>> \o Without(Tail(s), dead)

\* spawn_enemies(count): a fresh formation of count sprites, row by row;
\* every sprite of the run has its own id (the number of the spawn, then
\* its place), eh is the height of the invader image scaled to ENEMY_W
SpawnEnemies(g, count) ==
    LET total_w == COLS * ENEMY_W + (COLS - 1) * ENEMY_GAP
        start_x == (SCREEN_W - total_w) \div 2
    IN  [g EXCEPT
          !.wave = @ + 1,
          !.enemies = <<>> \o
              [k \in 1..count |->
                 LET r == (k - 1) \div COLS
                     c == (k - 1) % COLS
                 IN  [ id |-> (g.wave + 1) * 100 + k,
                       x |-> start_x + c * (ENEMY_W + ENEMY_GAP),
                       y |-> ENEMY_INITIAL_TOP + r * (ENEMY_H + ENEMY_GAP),
                       w |-> ENEMY_W, h |-> g.eh,
                       init_y |->
                           ENEMY_INITIAL_TOP + r * (ENEMY_H + ENEMY_GAP) ]]]

\* remaining questions of the one_each mode
Remaining(g) == Max(0, g.nq - Max(0, g.question_index - 1))

\* spawn_enemies_for_mode_initial()
SpawnInitial(g) ==
    IF g.mode = "one_each"
      THEN IF Min(ENEMIES_PER_WAVE, Remaining(g)) > 0
             THEN SpawnEnemies(g, Min(ENEMIES_PER_WAVE, Remaining(g)))
             ELSE [g EXCEPT !.enemies = <<>>]
      ELSE SpawnEnemies(g, ENEMIES_PER_WAVE)

\* the wave the two collision paths spawn: nothing when no question remains
SpawnNextWave(g) ==
    IF g.mode = "one_each"
      THEN IF Remaining(g) > 0
             THEN SpawnEnemies(g, Min(ENEMIES_PER_WAVE, Remaining(g)))
             ELSE g
      ELSE SpawnEnemies(g, ENEMIES_PER_WAVE)

\* load_next_question(); has_q is "current_q is not None"
LoadNextQuestion(g) ==
    IF g.nq = 0
      THEN [g EXCEPT !.has_q = FALSE, !.state = "asking",
                     !.question_timer_ms = None]
    ELSE IF g.question_index >= g.nq /\ g.mode = "one_each"
      THEN [g EXCEPT !.has_q = FALSE, !.question_timer_ms = None,
                     !.state = IF g.lives = None \/ g.lives > 0
                                 THEN "won" ELSE "game_over"]
    ELSE [g EXCEPT
            !.has_q = TRUE,
            !.question_index =
                (IF g.question_index >= g.nq THEN 0 ELSE g.question_index) + 1,
            !.state = "asking",
            !.question_timer_ms = g.tbq_ms]

\* _cleanup_after_finish()
CleanupAfterFinish(g) ==
    [g EXCEPT !.bullets = {}, !.pending_target = None,
              !.question_timer_ms = None, !.finish_after_hit = FALSE]

\* _cleanup_after_finish() when the run has finished
CleanupIfFinished(g) ==
    IF g.state \in Finished THEN CleanupAfterFinish(g) ELSE g

\* the settings and assets of a run: question mode, lives, total_time and
\* time_between_questions in milliseconds (None: unlimited), the number
\* of questions of the CSV file, the height of the invader image
Configs ==
    [ mode : {"loop", "one_each"}, lives : {None}, total_time_ms : {None, 800},
      tbq_ms : {None}, nq : {3}, eh : {ENEMY_H, 12, 10} ]

\* the game when run() enters its loop: constructor, first question, sprites,
\* then the settings
GameNew(cfg) ==
    LET g0 == [ mode |-> cfg.mode, s_lives |-> cfg.lives, nq |-> cfg.nq,
                eh |-> cfg.eh, state |-> "asking", score |-> 0, lives |-> 3,
                question_index |-> 0, has_q |-> FALSE,
                question_timer_ms |-> None, tbq_ms |-> None,
                session_time_ms |-> None, session_elapsed_ms |-> 0,
                pending_target |-> None, finish_after_hit |-> FALSE,
                enemy_dir |-> 1, descent_needed |-> 0,
                player_x |-> PlayerStartX, bullets |-> {}, enemies |-> <<>>,
                wave |-> 0, frame |-> 0, hit |-> "none",
                input |-> [click |-> "none", keys |-> "none", dt |-> 0] ]
        g1 == SpawnInitial(LoadNextQuestion(g0))
    IN  [g1 EXCEPT
          !.lives = cfg.lives,
          !.session_time_ms = cfg.total_time_ms,
          !.tbq_ms = cfg.tbq_ms,
          !.descent_needed =
              IF cfg.total_time_ms # None /\ cfg.total_time_ms > 0
                THEN Max(0, Max(0, PlayerTop) - ENEMY_INITIAL_TOP - 8)
                ELSE 0]

\* the target of the correct-answer branch: the first enemy, in the order of
\* the group, whose centre is horizontally nearest to the player's
NearestEnemy(g) ==
    LET d(i) == Abs(EnemyCenterX(g.enemies[i]) - PlayerCenterX(g))
        best == CHOOSE i \in 1..Len(g.enemies) :
                    /\ \A j \in 1..Len(g.enemies) : d(i) <= d(j)
                    /\ \A j \in 1..(i - 1) : d(j) > d(i)
    IN  g.enemies[best]

\* the bullet of the correct-answer branch
FiredBullet(g) ==
    LET t == NearestEnemy(g)
        start == <<PlayerCenterX(g), PlayerTop>>
        target == <<EnemyCenterX(t), EnemyCenterY(t)>>
    IN  BulletNew("space", start, target, SpaceAim(start, target),
                  BULLET_SPEED_MAG, BULLET_W, BULLET_H) @@ [tid |-> t.id]

\* a correct-answer branch that loads the next question at the click, also
\* after the last question
ClickCorrectAtOnce(g) ==
    IF Len(g.enemies) > 0
      THEN LET f == [g EXCEPT !.bullets = @ \cup {FiredBullet(g)},
                              !.pending_target = NearestEnemy(g).id]
               n == LoadNextQuestion(f)
           IN  IF n.state \in Finished
                 THEN CleanupAfterFinish(n)
                 ELSE [n EXCEPT !.state = "playing"]
      ELSE LET n == LoadNextQuestion([g EXCEPT !.score = @ + HIT_SCORE])
           IN  IF n.state \notin Finished
                 THEN [n EXCEPT !.state = "asking"]
                 ELSE CleanupAfterFinish(n)

\* the branch of the mouse handler for the correct choice
ClickCorrect(g) ==
    IF Len(g.enemies) > 0
      THEN LET f == [g EXCEPT !.bullets = @ \cup {FiredBullet(g)},
                              !.pending_target = NearestEnemy(g).id]
           IN  IF g.mode = "one_each" /\ g.question_index >= g.nq
                 THEN [f EXCEPT !.finish_after_hit = TRUE,
                                !.state = "playing"]
                 ELSE LET n == LoadNextQuestion(f)
                      IN  IF n.state \in Finished
                            THEN CleanupAfterFinish(n)
                            ELSE [n EXCEPT !.state = "playing"]
      ELSE LET n == LoadNextQuestion([g EXCEPT !.score = @ + HIT_SCORE])
           IN  IF n.state \notin Finished
                 THEN [n EXCEPT !.state = "asking"]
                 ELSE CleanupAfterFinish(n)

\* lives -= 1 when lives are finite
LoseLife(g) == IF g.lives # None THEN [g EXCEPT !.lives = @ - 1] ELSE g

\* a wrong-answer branch that asks the same question again
ClickWrongKept(g) ==
    LET l == LoseLife(g)
    IN  IF l.lives # None /\ l.lives <= 0
          THEN CleanupAfterFinish([l EXCEPT !.state = "game_over"])
          ELSE l

\* the branch of the mouse handler for another choice
ClickWrong(g) ==
    LET l == LoseLife(g)
    IN  IF l.lives # None /\ l.lives <= 0
          THEN CleanupAfterFinish([l EXCEPT !.state = "game_over"])
          ELSE LoadNextQuestion(l)

\* the MOUSEBUTTONDOWN handler: click is the choice under the mouse
Clicked(g, click) ==
    IF g.state = "asking" /\ g.has_q
      THEN CASE click = "correct" -> ClickCorrect(g)
             [] click = "wrong" -> ClickWrong(g)
             [] OTHER -> g
      ELSE g

\* the session timer
SessionTimer(g, dt) ==
    IF g.session_time_ms # None /\ g.state \notin Finished
      THEN LET e == [g EXCEPT !.session_elapsed_ms = @ + dt]
           IN  IF e.session_elapsed_ms >= e.session_time_ms
                 THEN CleanupAfterFinish([e EXCEPT !.state = "game_over"])
                 ELSE e
      ELSE g

\* the question timer
QuestionTimer(g, dt) ==
    IF g.state = "asking" /\ g.question_timer_ms # None
      THEN LET t == [g EXCEPT !.question_timer_ms = @ - dt]
           IN  IF t.question_timer_ms <= 0
                 THEN LET l == LoseLife(t)
                      IN  IF l.lives # None /\ l.lives <= 0
                            THEN CleanupAfterFinish(
                                     [l EXCEPT !.state = "game_over"])
                          ELSE IF l.mode = "one_each"
                                  /\ l.question_index >= l.nq
                            THEN CleanupAfterFinish(
                                     [l EXCEPT !.state =
                                         IF l.lives = None \/ l.lives > 0
                                           THEN "won" ELSE "game_over"])
                          ELSE LoadNextQuestion(l)
                 ELSE t
      ELSE g

\* Player.update(keys)
PlayerUpdated(g, keys) ==
    LET x == g.player_x - (IF keys = "left" THEN PLAYER_SPEED ELSE 0)
                        + (IF keys = "right" THEN PLAYER_SPEED ELSE 0)
    IN  [g EXCEPT !.player_x = Max(0, Min(x, SCREEN_W - PLAYER_W))]

\* bullets.update(): a bullet that left the field is killed
BulletsUpdated(g) ==
    [g EXCEPT !.bullets =
        { BulletUpdated(b) : b \in { c \in g.bullets :
                                        BulletUpdated(c).alive } }]

\* e.rect.x += move_x for every enemy, move_x in thousandths of a pixel
\* (the concatenation makes the result a sequence)
MovedX(g, milli) ==
    [g EXCEPT !.enemies = <<>> \o
        [i \in 1..Len(g.enemies) |->
            [g.enemies[i] EXCEPT !.x = Trunc(1000 * @ + milli, 1000)]]]

\* e.rect.y += drop for every enemy
Dropped(g, drop) ==
    [g EXCEPT !.enemies = <<>> \o
        [i \in 1..Len(g.enemies) |-> [g.enemies[i] EXCEPT !.y = @ + drop]]]

\* the bounce at a side of the screen
Bounced(g, drop) ==
    IF /\ g.enemies # <<>>
       /\ \/ \E e \in Range(g.enemies) : e.x <= 0
          \/ \E e \in Range(g.enemies) : EnemyRight(e) >= SCREEN_W
      THEN Dropped([g EXCEPT !.enemy_dir = -@], drop)
      ELSE g

\* the continuous descent: e.rect.y += enemy_descent_speed_px_per_ms * dt,
\* the speed being descent_needed / session_time_ms
Descended(g, dt) ==
    IF g.descent_needed > 0
      THEN [g EXCEPT !.enemies = <<>> \o
              [i \in 1..Len(g.enemies) |->
                  [g.enemies[i] EXCEPT !.y =
                      Trunc(g.session_time_ms * @ + g.descent_needed * dt,
                            g.session_time_ms)]]]
      ELSE g

\* the wrap: e.rect.y = e.init_y for every enemy
Wrapped(g) ==
    [g EXCEPT !.enemies = <<>> \o
        [i \in 1..Len(g.enemies) |->
            [g.enemies[i] EXCEPT !.y = g.enemies[i].init_y]]]

\* an enemy at the player's top ends a timed run; else the formation wraps
ReachedPlayer(g) ==
    IF \E e \in Range(g.enemies) : EnemyBottom(e) >= PlayerTop
      THEN IF g.session_time_ms # None
             THEN CleanupAfterFinish([g EXCEPT !.state = "game_over"])
             ELSE Wrapped(g)
      ELSE g

\* pygame's colliderect of an enemy and a bullet
CollideRect(e, b) ==
    /\ e.x < RectRight(b.cx, b.w)
    /\ e.y < RectBottom(b.cy, b.h)
    /\ EnemyRight(e) > RectLeft(b.cx, b.w)
    /\ EnemyBottom(e) > RectTop(b.cy, b.h)

\* pygame.sprite.groupcollide(enemies, bullets, True, True): the enemies
\* are visited in the order of the group; an enemy that touches bullets
\* still alive is killed with them.  es: the enemies still to visit, bs:
\* the bullets alive, dead: the ids of the enemies killed so far
RECURSIVE GroupCollide(_, _, _)
GroupCollide(es, bs, dead) ==
    IF es = <<>> THEN [bullets |-> bs, dead |-> dead]
    ELSE LET c == { b \in bs : CollideRect(Head(es), b) }
         IN  IF c = {}
               THEN GroupCollide(Tail(es), bs, dead)
               ELSE GroupCollide(Tail(es), bs \ c, dead \cup {Head(es).id})

\* load_next_question() of a hit that ends the run (finish_after_hit)
FinishAfterHit(g) ==
    IF g.finish_after_hit
      THEN [CleanupIfFinished(LoadNextQuestion(g))
              EXCEPT !.finish_after_hit = FALSE]
      ELSE g

\* what the rect collisions do when the wave is cleared
WaveCleared(g) ==
    LET n == IF ~g.finish_after_hit THEN LoadNextQuestion(g) ELSE g
        s == IF n.state \in Finished THEN CleanupAfterFinish(n)
             ELSE SpawnNextWave(n)
    IN  IF Len(s.enemies) = 0 /\ s.state \notin Finished
          THEN [s EXCEPT !.state = "asking"]
          ELSE s

\* the rect collisions of the playing state
Collisions(g) ==
    LET hits == GroupCollide(g.enemies, g.bullets, {})
    IN  IF hits.dead # {}
          THEN LET h == [g EXCEPT
                           !.enemies = Without(g.enemies, hits.dead),
                           !.bullets = hits.bullets,
                           !.score = @ + HIT_SCORE * Cardinality(hits.dead),
                           !.pending_target = None,
                           !.hit = "rect"]
                   f == FinishAfterHit(h)
               IN  IF Len(f.enemies) = 0 THEN WaveCleared(f) ELSE f
          ELSE g

\* a radius of a third of the target's width and height
CollisionRadiusWide(w, h) == Max(MIN_RADIUS, (w + h) \div 3)

\* collision_radius of the forced hit, for a target of size w x h
CollisionRadius(w, h) == Max(MIN_RADIUS, (w + h) \div 6)

\* the pending target; it is in the group as long as it is pending
PendingTarget(g) == CHOOSE e \in Range(g.enemies) : e.id = g.pending_target

\* dist <= collision_radius for bullet b and target t, math.hypot(dx, dy)
\* being compared by its square once both components are within the radius
WithinRadius(b, t) ==
    LET dx == b.posx - Fix(EnemyCenterX(t))
        dy == b.posy - Fix(EnemyCenterY(t))
        r == Fix(CollisionRadius(t.w, t.h))
    IN  Abs(dx) <= r /\ Abs(dy) <= r /\ dx * dx + dy * dy <= r * r

\* the forced hit of the targeted bullet by proximity
Proximity(g) ==
    IF g.pending_target = None THEN g
    ELSE LET t == PendingTarget(g)
             near == { b \in g.bullets :
                         b.tid = g.pending_target /\ WithinRadius(b, t) }
         IN  IF near = {} THEN g
             ELSE LET b == CHOOSE c \in near : TRUE
                      k == [g EXCEPT
                              !.enemies = Without(g.enemies, {t.id}),
                              !.bullets = @ \ {b},
                              !.score = @ + HIT_SCORE,
                              !.pending_target = None,
                              !.hit = "proximity"]
                      f == FinishAfterHit(k)
                      s == IF f.state \notin Finished THEN SpawnNextWave(f)
                           ELSE f
                  IN  IF s.state \notin Finished
                        THEN [s EXCEPT !.state = "asking"]
                        ELSE s

\* the playing state hands over to the asking state when no bullet is left
NoBulletLeft(g) ==
    IF g.bullets = {} /\ g.state \notin Finished
      THEN [g EXCEPT !.state = "asking"]
      ELSE g

\* the update of the playing state up to the rect collisions
PlayingMoved(g, keys, dt) ==
    LET b == BulletsUpdated(PlayerUpdated(g, keys))
        m == IF b.pending_target = None
               THEN Bounced(MovedX(b, b.enemy_dir * ENEMY_SPEED_MILLI * dt),
                            BOUNCE_DROP_PLAYING)
               ELSE b
    IN  Collisions(ReachedPlayer(Descended(m, dt)))

\* the update of the playing state
PlayingUpdated(g, keys, dt) ==
    NoBulletLeft(Proximity(PlayingMoved(g, keys, dt)))

\* the update of the asking state
AskingUpdated(g, keys, dt) ==
    LET b == BulletsUpdated(PlayerUpdated(g, keys))
        m == Bounced(MovedX(b, Div(b.enemy_dir * ENEMY_SPEED_MILLI * dt * 2,
                                   10)),
                     BOUNCE_DROP_ASKING)
    IN  ReachedPlayer(Descended(m, dt))

\* setup_pygame_objects()
SetupObjects(g) ==
    SpawnInitial([g EXCEPT !.player_x = PlayerStartX, !.bullets = {},
                           !.enemies = <<>>])

\* the R key on the end screen
Restarted(g, keys) ==
    IF g.state \in Finished /\ keys = "r"
      THEN LET q == LoadNextQuestion(
                        [g EXCEPT !.lives = g.s_lives, !.score = 0,
                                  !.question_index = 0])
           IN  [SetupObjects(q) EXCEPT !.session_elapsed_ms = 0,
                                       !.state = "asking"]
      ELSE g

\* the frame up to the game updates: the event and the two timers
FrameTimed(g, click, dt) ==
    QuestionTimer(SessionTimer(Clicked(g, click), dt), dt)

\* the frame up to the end screen
FrameUpdated(g, click, keys, dt) ==
    LET t == FrameTimed(g, click, dt)
    IN  CASE t.state = "playing" -> PlayingUpdated(t, keys, dt)
          [] t.state = "asking" -> AskingUpdated(t, keys, dt)
          [] OTHER -> t

\* one frame of run(); frame counts the frames, input records the inputs
\* and hit the collision path on which the frame registered a hit
FrameDone(g, click, keys, dt) ==
    [Restarted(FrameUpdated([g EXCEPT !.hit = "none"], click, keys, dt),
               keys) EXCEPT
        !.frame = @ + 1,
        !.input = [click |-> click, keys |-> keys, dt |-> dt]]

\* the inputs of a frame: the choice clicked, the key held, clock.tick(60)
Clicks == {"none", "correct", "wrong"}
Keys == {"none", "left"}
FrameDts == {16}

\* a direction <<dx, dy>> in which the aim is exact in the model's
\* arithmetic: straight up or down, or along a Pythagorean triple
ExactDirection(dx, dy) ==
    \/ dx = 0 /\ dy # 0
    \/ \E r \in Max(Abs(dx), Abs(dy))..(Abs(dx) + Abs(dy)) :
          /\ r * r = dx * dx + dy * dy
          /\ (dx * Fix(BULLET_SPEED_MAG)) % r = 0
          /\ (dy * Fix(BULLET_SPEED_MAG)) % r = 0

\* the shot a correct answer would fire has an exact aim
ExactAim(g) ==
    ExactDirection(EnemyCenterX(NearestEnemy(g)) - PlayerCenterX(g),
                   EnemyCenterY(NearestEnemy(g)) - PlayerTop)

\* the inputs the model follows.  A click that the frame ignores (no
\* question is asked) counts as no click.  A correct answer is given in a
\* frame in which the aim is exact; the player steers while a question is
\* asked and waits while the bullet flies; R is not pressed.
Followed(g, click, keys) ==
    /\ click # "none" => g.state = "asking" /\ g.has_q
    /\ (click = "correct" /\ g.enemies # <<>>) => ExactAim(g)
    /\ keys # "none" => g.state = "asking"

(***************************************************************************)
(* Specification of the space game: any sequence of frames.                *)
(***************************************************************************)
InitSpace ==
    /\ enemy = EnemyNew([path |-> EmptyPath, speed |-> 10, upp |-> 1])
    /\ call = NoCall
    /\ ticks = 0
    /\ dtc = 0
    /\ shot = NoShot
    /\ \E cfg \in Configs : game = GameNew(cfg)

Frame ==
    /\ game.frame < MaxFrames
    /\ \E click \in Clicks, keys \in Keys, dt \in FrameDts :
          /\ Followed(game, click, keys)
          /\ game' = FrameDone(game, click, keys, dt)
    /\ UNCHANGED <<enemy, call, ticks, dtc, shot>>

NextSpace == Frame

SpecSpace == InitSpace /\ [][NextSpace]_vars

(***************************************************************************)
(* Properties of the path follower.                                        *)
(***************************************************************************)
\* length of the segment from waypoint i to the next one (0-based, closed)
SegLen(path, i) ==
    LET a == path[i + 1]
        b == path[((i + 1) % Len(path)) + 1]
    IN  Hypot(b[1] - a[1], b[2] - a[2])

\* total arc length of the closed path: the sum of the first k segments
RECURSIVE ArcLength(_, _)
ArcLength(path, k) ==
    IF k = 0 THEN 0 ELSE ArcLength(path, k - 1) + SegLen(path, k - 1)

\* distance of the enemy to waypoint i
DistTo(e, i) == Hypot(e.path[i + 1][1] - e.pos[1], e.path[i + 1][2] - e.pos[2])

\* C1: reached_goal_on_path(threshold) is true only when the enemy is
\* rushing with a goal index set, its path_index equals goal_index and it
\* is within threshold of the goal waypoint.
C1_ReachedOnlyAtGoalIndex ==
    \A th \in Thresholds :
        ReachedGoalOnPath(enemy, th) =>
            /\ enemy.rush
            /\ enemy.goal_index # None
            /\ enemy.path_index = enemy.goal_index
            /\ GoalD2(enemy.path, enemy.goal_index, enemy.pos) <= th * th

\* C2: after set_rush_to_goal(goal_pos) rush is true and goal_index is the
\* lowest index among the waypoints of minimal squared distance to goal_pos
\* (None on an empty path).
C2_RushGoalIsNearest ==
    call.op = "set_rush_to_goal" =>
        /\ enemy.rush
        /\ IF Len(enemy.path) = 0
             THEN enemy.goal_index = None
             ELSE /\ enemy.goal_index \in 0..(Len(enemy.path) - 1)
                  /\ \A j \in 0..(Len(enemy.path) - 1) :
                       LET dg == GoalD2(enemy.path, enemy.goal_index, call.arg)
                           dj == GoalD2(enemy.path, j, call.arg)
                       IN  dg <= dj /\ (dj = dg => enemy.goal_index <= j)

\* set_rush_to_goal has run on a path where two waypoints are equally near
C2_Witness ==
    /\ call.op = "set_rush_to_goal"
    /\ Len(enemy.path) >= 2
    /\ \E j \in 0..(Len(enemy.path) - 1) :
         /\ j # enemy.goal_index
         /\ GoalD2(enemy.path, j, call.arg)
              = GoalD2(enemy.path, enemy.goal_index, call.arg)

\* the walk of SpecLoop has travelled one full arc length of its path
FullLap ==
    /\ ticks > 0
    /\ ticks * enemy.speed * dtc = ArcLength(enemy.path, Len(enemy.path))

AtStart == enemy.pos = enemy.path[1] /\ enemy.path_index = 0

\* the square of the scenario, speed 10, dt 1: back after exactly 4 updates
SquareScenario ==
    (enemy.path = SquarePath /\ enemy.speed = 10 /\ dtc = 1 /\ ticks <= 4)
        => (AtStart <=> ticks \in {0, 4})

\* C3 (as stated): a looping enemy walked with a constant dt over one full
\* arc length of its path is back at path[0] with path_index 0, for every
\* path and every dt; on the square with speed 10 and dt 1 after 4 updates.
C3_LoopReturnsAfterArcLength ==
    /\ FullLap => AtStart
    /\ SquareScenario

\* every segment is a positive multiple of the step of one update, and the
\* step is larger than the arrival tolerance
StepAligned ==
    /\ ~Arrived(enemy.speed * dtc, enemy.upp)
    /\ \A i \in 0..(Len(enemy.path) - 1) :
         /\ SegLen(enemy.path, i) > 0
         /\ SegLen(enemy.path, i) % (enemy.speed * dtc) = 0

\* C3 (amended): the looping enemy is back at path[0] with path_index 0
\* after one full arc length when every segment length is a positive
\* multiple of speed*dt (> 1e-6), so that no update is clamped to a waypoint
\* with a remainder; on the square with speed 10 and dt 1 after 4 updates.
C3_LoopReturnsWhenStepAligned ==
    /\ (FullLap /\ StepAligned) => AtStart
    /\ SquareScenario

\* a full lap with a step shorter than a segment
C3_Witness ==
    /\ FullLap
    /\ StepAligned
    /\ AtStart
    /\ enemy.speed * dtc < SegLen(enemy.path, 0)

\* one step leaves path_index or moves it to the next waypoint (wrapping)
IndexStepsForward ==
    Len(enemy.path) > 0 =>
        /\ enemy'.path_index \in 0..(Len(enemy.path) - 1)
        /\ \/ enemy'.path_index = enemy.path_index
           \/ enemy'.path_index = (enemy.path_index + 1) % Len(enemy.path)

\* C4 (as stated): every update leaves path_index or moves it to
\* (path_index + 1) mod len(path), never skipping a waypoint, and when it
\* advances the position is exactly that waypoint.
C4_AdvanceOneWaypointExactly ==
    [][ /\ IndexStepsForward
        /\ enemy'.path_index # enemy.path_index
             => enemy'.pos = enemy.path[enemy'.path_index + 1] ]_vars

\* C4 (amended): as above, and when path_index advances the position is
\* within the arrival tolerance 1e-6 of that waypoint (exactly on it
\* when the step reached it).
C4_AdvanceOneWaypoint ==
    [][ /\ IndexStepsForward
        /\ enemy'.path_index # enemy.path_index
             => Arrived(DistTo(enemy', enemy'.path_index), enemy.upp) ]_vars

\* an update whose step spans more than two segments wrapped from the last
\* waypoint to waypoint 0
C4_Witness ==
    /\ call.op = "update"
    /\ Len(enemy.path) >= 3
    /\ call.arg[2] = Len(enemy.path) - 1
    /\ enemy.path_index = 0
    /\ StepSpeed(enemy) * call.arg[1]
         > SegLen(enemy.path, Len(enemy.path) - 1) + SegLen(enemy.path, 0)

\* C5 (as stated): once rush is true it is never false again.
C5_RushIsTerminal == [][enemy.rush => enemy'.rush]_vars

\* C5 (amended): rush is left only by a call of stop_rush; no update, not
\* even the one that arrives at the goal waypoint, and no set_rush_to_goal
\* takes a rushing enemy back to looping.
C5_OnlyStopRushLeavesRush ==
    [][(enemy.rush /\ ~enemy'.rush) => call'.op = "stop_rush"]_vars

\* a rushing enemy has just arrived at its goal waypoint and still rushes
C5_Witness ==
    /\ call.op = "update"
    /\ enemy.rush
    /\ enemy.goal_index # None
    /\ enemy.path_index = enemy.goal_index
    /\ call.arg[2] # enemy.path_index
    /\ enemy.pos = enemy.path[enemy.goal_index + 1]

(***************************************************************************)
(* Properties of the projectiles.                                          *)
(***************************************************************************)
IsBullet == shot.kind \in {"space", "cowboy"}

\* C6: a projectile created with its target at the shooter position gets
\* the fallback velocity straight up, (0, -speed), at every firing site
\* (space bullet, cowboy bullet, tower-defense Projectile).
C6_DegenerateAimIsStraightUp ==
    (shot.kind # "none" /\ shot.start = shot.target) =>
        (shot.vx = 0 /\ shot.vy = -Fix(shot.speed))

\* C7: for a shooter position different from the target position the
\* velocity points from the shooter to the target and its magnitude is the
\* configured speed; this stays so under every later update.
C7_AimedVelocity ==
    (shot.kind # "none" /\ shot.start # shot.target) =>
        LET dx == shot.target[1] - shot.start[1]
            dy == shot.target[2] - shot.start[2]
        IN  /\ shot.vx * dy = shot.vy * dx
            /\ shot.vx * dx >= 0
            /\ shot.vy * dy >= 0
            /\ shot.vx * dx + shot.vy * dy > 0
            /\ shot.vx * shot.vx + shot.vy * shot.vy
                 = Fix(shot.speed) * Fix(shot.speed)

\* a tower-defense projectile aimed off the axes has been updated
C7_Witness ==
    /\ shot.kind = "td"
    /\ shot.alive
    /\ shot.posx # Fix(shot.start[1])
    /\ shot.posy # Fix(shot.start[2])
    /\ shot.target[1] - shot.start[1] # shot.target[2] - shot.start[2]

\* the float position lies beyond the visible field expanded by m pixels
Beyond(b, m) ==
    \/ b.posx < Fix(-m)
    \/ b.posx > Fix(SCREEN_W + m)
    \/ b.posy < Fix(-m)
    \/ b.posy > Fix(SCREEN_H + m)

\* C8 (as stated): a Bullet is destroyed by its update on the first tick at
\* which its position lies beyond the visible field expanded by the margin
\* of 50, and is not destroyed while its position is inside that region.
C8_DestroyedWhenPositionBeyondMargin ==
    IsBullet => (shot.alive <=> ~Beyond(shot, MARGIN))

\* half of the larger side of the bullet's surface, rounded up
HalfExtent(b) == ((IF b.w > b.h THEN b.w ELSE b.h) + 1) \div 2

\* C8 (amended): a Bullet is destroyed by its update on the first tick at
\* which its whole rectangle lies beyond the visible field expanded by 50,
\* that is when its centre is beyond that region by half its size; a bullet
\* whose position is inside the expanded region is never destroyed, and a
\* bullet still alive is within 50 + half its size + 1 of the field.
C8_DestroyedWhenRectBeyondMargin ==
    IsBullet =>
        /\ ~shot.alive <=> OffScreen(shot.cx, shot.cy, shot.w, shot.h)
        /\ ~shot.alive => Beyond(shot, MARGIN)
        /\ shot.alive => ~Beyond(shot, MARGIN + HalfExtent(shot) + 1)

\* a bullet flying diagonally has been destroyed by its update
C8_Witness ==
    /\ IsBullet
    /\ ~shot.alive
    /\ shot.vx # 0
    /\ shot.vy # 0
    /\ Beyond(shot, MARGIN + HalfExtent(shot))

RenderIsTruncated ==
    /\ shot.kind # "none" =>
         /\ shot.cx = Trunc(shot.posx, Q)
         /\ shot.cy = Trunc(shot.posy, Q)
    /\ enemy.rect = <<Trunc(enemy.pos[1], enemy.upp),
                      Trunc(enemy.pos[2], enemy.upp)>>

\* the float position of one step comes from the previous float position
FloatAdvances ==
    /\ (IsBullet /\ shot' # shot) =>
         /\ shot'.posx = shot.posx + shot.vx
         /\ shot'.posy = shot.posy + shot.vy
    /\ (shot.kind = "td" /\ shot' # shot /\ shot'.alive) =>
         \E ms \in DtMs :
            /\ shot'.posx = shot.posx + Div(shot.vx * ms, 1000)
            /\ shot'.posy = shot.posy + Div(shot.vy * ms, 1000)
    /\ (enemy'.pos # enemy.pos) =>
         \/ enemy'.pos = enemy.path[NextIdx(enemy) + 1]
         \/ DistTo(enemy', NextIdx(enemy))
              = DistTo(enemy, NextIdx(enemy)) - StepSpeed(enemy) * call'.arg[1]

AtProximityTest(g, in) ==
    PlayingMoved(FrameTimed([g EXCEPT !.hit = "none"], in.click, in.dt),
                 in.keys, in.dt)

\* the frame whose inputs are in runs the update of the playing state
RunsPlaying(g, in) == FrameTimed(g, in.click, in.dt).state = "playing"

\* the bullets aimed at the pending target
AimedBullets(g) == { b \in g.bullets : b.tid = g.pending_target }

\* the square of the distance, in Q-ths of a pixel, of bullet b from the
\* centre of enemy t
Dist2(b, t) ==
    (b.posx - Fix(EnemyCenterX(t))) * (b.posx - Fix(EnemyCenterX(t)))
    + (b.posy - Fix(EnemyCenterY(t))) * (b.posy - Fix(EnemyCenterY(t)))

\* the square, in Q-ths of a pixel, of max(14, (width + height) // 6) + more
RadiusPlus2(t, more) ==
    LET r == IF (t.w + t.h) \div 6 > 14 THEN (t.w + t.h) \div 6 ELSE 14
    IN  Fix(r + more) * Fix(r + more)

\* the enemy of id tid is in the group
Alive(g, tid) == \E e \in Range(g.enemies) : e.id = tid

\* the frame from g to h resolves the hit of the bullet at the forced-hit
\* test when it is within the radius of the pending target, and resolves
\* no hit when every aimed bullet is farther
ProximityResolved(g, h) ==
    RunsPlaying(g, h.input) =>
        LET m == AtProximityTest(g, h.input)
        IN  (m.pending_target # None /\ AimedBullets(m) # {}) =>
               IF \E b \in AimedBullets(m) :
                      Dist2(b, PendingTarget(m)) <= RadiusPlus2(PendingTarget(m), 0)
                 THEN /\ ~Alive(h, m.pending_target)
                      /\ \A b \in h.bullets : b.tid # m.pending_target
                      /\ h.pending_target = None
                      /\ h.score = g.score + 100
                      /\ h.hit = "proximity"
                 ELSE /\ Alive(h, m.pending_target)
                      /\ AimedBullets(m) \subseteq h.bullets
                      /\ h.pending_target = m.pending_target
                      /\ h.score = g.score
                      /\ h.hit = "none"

\* no frame of the playing state ends with a bullet within the radius of
\* the pending target it is aimed at
NoAimedBulletLeftNear ==
    (game.state = "playing" /\ game.pending_target # None) =>
        \A b \in AimedBullets(game) :
            Dist2(b, PendingTarget(game)) > RadiusPlus2(PendingTarget(game), 0)

\* C9: in a frame of the playing state in which the bullet aimed at the
\* pending target is, at the forced-hit test, at distance <= max(14,
\* (width + height) // 6) from the target's centre, the hit is resolved in
\* that frame: bullet and target are destroyed, the pending target is
\* cleared and the score grows by 100; at a greater distance (radius + 1
\* included) no hit is resolved in that frame; hence no frame ends with
\* the aimed bullet within the radius.
C9_ProximityHitSameTick ==
    []NoAimedBulletLeftNear /\ [][ProximityResolved(game, game')]_vars

\* a frame has just resolved a hit by proximity
C9_Witness ==
    /\ game.state # "none"
    /\ game.hit = "proximity"
    /\ game.score = 100
    /\ game.pending_target = None

(***************************************************************************)
(* The tower-defense game: one frame of TowerDefenseGame.run.  The Creature *)
(* sprite and the towers' firing are not part of the sources; a creature   *)
(* is modelled from the description of the path follower as a distance to  *)
(* its goal that shrinks while it walks or sprints, and a tower shot as a   *)
(* number of updates the projectile stays in flight.  Whether a tower can   *)
(* fire and which creature a projectile overlaps are inputs of the frame.   *)
(***************************************************************************)
MaxTdFrames == 7

MAX_CREATURES == 14
SPAWN_INTERVAL_MS == 1500
MIN_SPAWN_INTERVAL_MS == 300
BASE_CREATURE_SPEED == 60
SPRINT_SPEED == 180
ARRIVE_THRESHOLD == 12
TD_HIT_SCORE == 50
TD_ADVANCE_SCORE == 100

\* lives of a run without a limit of lives (settings.lives is None); the
\* lives of this game can fall below zero
NoLimit == -100

\* _creature_speed_from_settings(): speed in pixels per second and loop mode
\* for time_between_questions of tbq seconds (None: not set)
CreatureSpeed(tbq) ==
    IF tbq = None THEN BASE_CREATURE_SPEED
    ELSE Max(20, Min(200, (160 * 3) \div Max(1, Min(600, tbq))))

CreatureLoops(tbq) == tbq = None

\* the spawn interval of a frame
SpawnInterval(tbq) ==
    IF tbq = None \/ tbq = 0 THEN SPAWN_INTERVAL_MS
    ELSE Max(MIN_SPAWN_INTERVAL_MS, (SPAWN_INTERVAL_MS * tbq) \div 10)

\* ids of the creatures of the group
CreatureIds(g) == {g.creatures[i].id : i \in 1..Len(g.creatures)}

\* spawn_creature(): a creature at the start of the path
Creature(g) ==
    [ id |-> CHOOSE n \in 1..(MAX_CREATURES + 1) :
                 /\ n \notin CreatureIds(g)
                 /\ \A m \in 1..(n - 1) : m \in CreatureIds(g),
      dist |-> g.path_len, speed |-> CreatureSpeed(g.tbq),
      loops |-> CreatureLoops(g.tbq), forced |-> FALSE, hp |-> 1,
      reached_goal |-> FALSE ]

SpawnCreature(g) == [g EXCEPT !.creatures = Append(@, Creature(g))]

\* Creature.update(dt): a looping creature stays on its loop; a creature
\* walking the path or sprinting to the goal has reached it within the
\* arrival threshold
CreatureUpdated(c, dt) ==
    IF c.forced \/ ~c.loops
      THEN LET d == Max(0, c.dist - (c.speed * dt) \div 1000)
           IN  [c EXCEPT !.dist = d, !.reached_goal = d <= ARRIVE_THRESHOLD]
      ELSE c

\* Creature.take_damage(dmg) of a projectile of damage 1
CreatureDamaged(c) == [c EXCEPT !.hp = @ - 1]

\* load_next_question()
TdLoadNextQuestion(g) ==
    IF g.nq = 0
      THEN [g EXCEPT !.has_q = FALSE, !.state = "asking"]
    ELSE IF g.question_index >= g.nq /\ g.mode = "one_each"
      THEN [g EXCEPT !.has_q = FALSE,
                     !.state = IF g.lives = NoLimit \/ g.lives > 0
                                 THEN "won" ELSE "game_over"]
    ELSE LET i == IF g.question_index >= g.nq THEN 0 ELSE g.question_index
         IN  [g EXCEPT !.has_q = TRUE, !.question_index = i + 1,
                       !.state = "asking"]

\* setup_objects(): a new path and towers, empty groups
TdSetupObjects(g) ==
    [g EXCEPT !.creatures = <<>>, !.projectiles = <<>>, !.spawn_timer = 0]

\* the settings of a run: question mode, lives, total_time in milliseconds,
\* time_between_questions in seconds (None: not set), the number of
\* questions, the length of the path and the updates a tower shot flies
TdConfigs ==
    [ mode : {"loop", "one_each"}, lives : {NoLimit, 1, 2},
      total_time_ms : {None, 12000}, tbq : {None, 3}, nq : {2},
      path_len : {760}, flight : {2} ]

\* the game when run() enters its loop
TdGameNew(cfg) ==
    LET g0 == [ mode |-> cfg.mode, s_lives |-> cfg.lives,
                s_total_ms |-> cfg.total_time_ms, tbq |-> cfg.tbq,
                nq |-> cfg.nq, path_len |-> cfg.path_len,
                flight |-> cfg.flight,
                state |-> "asking", score |-> 0, lives |-> 3,
                question_index |-> 0, has_q |-> FALSE,
                finish_after_hit |-> FALSE, spawn_timer |-> 0,
                session_time_ms |-> None,
                creatures |-> <<>>, projectiles |-> <<>>,
                frame |-> 0, arrived |-> {}, restarted |-> FALSE,
                input |-> [click |-> "none", keys |-> "none", dt |-> 0] ]
    IN  [TdSetupObjects(TdLoadNextQuestion(g0)) EXCEPT
          !.lives = cfg.lives, !.session_time_ms = cfg.total_time_ms]

\* session timer tick
TdSessionTimer(g, dt) ==
    IF g.session_time_ms = None THEN g
    ELSE LET t == Max(0, g.session_time_ms - dt)
         IN  [g EXCEPT !.session_time_ms = t,
                       !.state = IF t <= 0 /\ g.state \notin Finished
                                   THEN "game_over" ELSE @]

\* the branch of the mouse handler for the correct choice; canfire is
\* tower.can_fire() of the tower nearest to a creature
TdClickCorrect(g, canfire) ==
    IF Len(g.creatures) > 0
      THEN LET f == IF canfire
                      THEN [g EXCEPT !.projectiles = Append(@, g.flight)]
                      ELSE g
           IN  IF g.mode = "one_each" /\ g.question_index >= g.nq
                 THEN [f EXCEPT !.finish_after_hit = TRUE,
                                !.state = "playing"]
                 ELSE LET n == TdLoadNextQuestion(f)
                      IN  IF n.state \in Finished THEN n
                          ELSE [n EXCEPT !.state = "playing"]
      ELSE TdLoadNextQuestion([g EXCEPT !.score = @ + TD_ADVANCE_SCORE])

\* the creature the wrong-answer branch sends to the goal: the first of the
\* group among those nearest to the goal
NearestToGoal(g) ==
    CHOOSE i \in 1..Len(g.creatures) :
        /\ \A j \in 1..Len(g.creatures) :
               g.creatures[i].dist <= g.creatures[j].dist
        /\ \A j \in 1..(i - 1) : g.creatures[j].dist > g.creatures[i].dist

\* forced_direct_target and the sprint speed of the wrong-answer branch
Sprinting(c) ==
    [c EXCEPT !.forced = TRUE, !.speed = Max(SPRINT_SPEED, (@ * 5) \div 2)]

\* a wrong-answer branch that takes the life at answer time
TdClickWrongCostly(g) ==
    LET s == IF Len(g.creatures) > 0
               THEN [g EXCEPT !.creatures[NearestToGoal(g)] = Sprinting(@)]
               ELSE g
    IN  TdLoadNextQuestion(
            [s EXCEPT !.lives = IF @ = NoLimit THEN @ ELSE @ - 1])

\* the branch of the mouse handler for another choice
TdClickWrong(g) ==
    LET s == IF Len(g.creatures) > 0
               THEN [g EXCEPT !.creatures[NearestToGoal(g)] = Sprinting(@)]
               ELSE g
    IN  TdLoadNextQuestion(s)

\* MOUSEBUTTONDOWN on a choice
TdClicked(g, click, canfire) ==
    IF click = "none" \/ g.state # "asking" \/ ~g.has_q THEN g
    ELSE IF click = "correct" THEN TdClickCorrect(g, canfire)
    ELSE TdClickWrong(g)

\* spawn creatures as appropriate
TdSpawned(g, dt) ==
    IF g.state \in Finished THEN g
    ELSE LET t == [g EXCEPT !.spawn_timer = @ + dt]
         IN  IF t.spawn_timer >= SpawnInterval(g.tbq)
                  /\ Len(t.creatures) < MAX_CREATURES
               THEN [SpawnCreature(t) EXCEPT !.spawn_timer = 0]
               ELSE t

\* a creature that reached the goal: killed, and a life deducted
ReachedGoal(g, c) ==
    LET a == [g EXCEPT !.arrived = @ \cup {c.id}]
    IN  IF a.lives = NoLimit THEN a
        ELSE LET l == [a EXCEPT !.lives = @ - 1]
             IN  IF l.lives <= 0 THEN [l EXCEPT !.state = "game_over"] ELSE l

\* update creatures: every creature of the group in turn; g holds the
\* creatures already updated, cs those still to update
RECURSIVE UpdateCreatures(_, _, _)
UpdateCreatures(g, cs, dt) ==
    IF cs = <<>> THEN g
    ELSE LET c == CreatureUpdated(Head(cs), dt)
         IN  UpdateCreatures(
                 IF c.reached_goal THEN ReachedGoal(g, c)
                 ELSE [g EXCEPT !.creatures = Append(@, c)],
                 Tail(cs), dt)

CreaturesUpdated(g, dt) ==
    UpdateCreatures([g EXCEPT !.creatures = <<>>], g.creatures, dt)

\* projectiles.update(dt): a projectile is killed when it reaches the point
\* it was fired at
RECURSIVE Flown(_)
Flown(ps) ==
    IF ps = <<>> THEN <<>>
    ELSE IF Head(ps) <= 1 THEN Flown(Tail(ps))
    ELSE <<Head(ps) - 1>> \o Flown(Tail(ps))

ProjectilesUpdated(g) == [g EXCEPT !.projectiles = Flown(@)]

\* the creatures without those whose hit points are used up
RECURSIVE Living(_)
Living(cs) ==
    IF cs = <<>> THEN <<>>
    ELSE IF Head(cs).hp <= 0 THEN Living(Tail(cs))
    ELSE <<Head(cs)>> \o Living(Tail(cs))

\* projectile vs creature collisions: overlap is the index of the creature
\* the first projectile overlaps (0: no overlap)
TdCollisions(g, overlap) ==
    IF g.projectiles = <<>> \/ overlap = 0 \/ overlap > Len(g.creatures)
      THEN g
      ELSE [g EXCEPT
             !.creatures = Living([@ EXCEPT ![overlap] = CreatureDamaged(@)]),
             !.score = @ + TD_HIT_SCORE,
             !.projectiles = Tail(@)]

\* if finish_after_hit: wait for projectiles to clear, then advance/win
TdFinishAfterHit(g) ==
    IF g.finish_after_hit /\ g.projectiles = <<>>
      THEN LET n == [TdLoadNextQuestion(g) EXCEPT !.finish_after_hit = FALSE]
           IN  IF n.state \notin Finished THEN [n EXCEPT !.state = "asking"]
               ELSE n
      ELSE g

\* restart with R on the end screen
TdRestarted(g, keys) ==
    IF g.state \in Finished /\ keys = "r"
      THEN LET r == [g EXCEPT !.lives = g.s_lives, !.score = 0,
                              !.question_index = 0]
           IN  [TdSetupObjects(TdLoadNextQuestion(r)) EXCEPT
                 !.session_time_ms = g.s_total_ms, !.state = "asking",
                 !.restarted = TRUE]
      ELSE g

\* one pass of the loop of run()
TdFrameDone(g, click, canfire, overlap, keys, dt) ==
    LET g0 == [g EXCEPT !.arrived = {}, !.restarted = FALSE,
                        !.frame = @ + 1,
                        !.input = [click |-> click, keys |-> keys, dt |-> dt]]
        g1 == TdClicked(TdSessionTimer(g0, dt), click, canfire)
        g2 == CreaturesUpdated(TdSpawned(g1, dt), dt)
        g3 == TdCollisions(ProjectilesUpdated(g2), overlap)
    IN  TdRestarted(TdFinishAfterHit(g3), keys)

\* the inputs of a frame
TdKeys == {"none", "r"}
TdDts == {1000, 5000}

(***************************************************************************)
(* Specification of the tower-defense game: any sequence of frames.        *)
(***************************************************************************)
InitTd ==
    /\ enemy = EnemyNew([path |-> EmptyPath, speed |-> 10, upp |-> 1])
    /\ call = NoCall
    /\ ticks = 0
    /\ dtc = 0
    /\ shot = NoShot
    /\ \E cfg \in TdConfigs : game = TdGameNew(cfg)

TdFrame ==
    /\ game.frame < MaxTdFrames
    /\ \E click \in Clicks, canfire \in BOOLEAN, keys \in TdKeys,
          dt \in TdDts, overlap \in 0..Len(game.creatures) :
          /\ click # "none" => game.state = "asking" /\ game.has_q
          /\ ~canfire => click = "correct"
          /\ game' = TdFrameDone(game, click, canfire, overlap, keys, dt)
    /\ UNCHANGED <<enemy, call, ticks, dtc, shot>>

NextTd == TdFrame

SpecTd == InitTd /\ [][NextTd]_vars

(***************************************************************************)
(* Properties of the tower-defense game.                                   *)
(***************************************************************************)
\* h is the game one frame after g
TdFrameStep(g, h) == h.frame = g.frame + 1

\* the creatures that reached the goal in the frame are gone, each cost one
\* life, and the run is over when the lives are used up
ArrivalsCharged(g, h) ==
    TdFrameStep(g, h) =>
        /\ h.arrived \cap CreatureIds(h) = {}
        /\ (~h.restarted /\ g.lives # NoLimit) =>
               /\ h.lives = g.lives - Cardinality(h.arrived)
               /\ (g.lives > 0 /\ h.lives <= 0) => h.state = "game_over"
        /\ g.lives = NoLimit => h.lives = NoLimit

\* C11: every creature that reaches its goal is removed from the creature
\* group in that frame and costs exactly one life when lives are finite, no
\* creature is charged twice, and the state is game_over at the end of the
\* frame in which the lives first reach 0 (unless R restarts the run in
\* that very frame).  Violated: a restart keeps finish_after_hit, and the
\* frame after it advances the question and asks on, also when a creature
\* took the last life in it.
C11_ArrivalChargesOneLife == [][ArrivalsCharged(game, game')]_vars

(***************************************************************************)
(* Quiz loader: make_distractors.  A string is a sequence of characters;   *)
(* random draws (jitter, typo position, shuffles) make the result a set of *)
(* possible lists.  Numbers are counted in tenths: the inputs of the model *)
(* are non-negative integer literals, for which every float of the         *)
(* numeric heuristics is a whole number of tenths.                         *)
(***************************************************************************)
\* the characters of the model, in the order of their code points
Alphabet ==
    << " ", "-", ".", "0", "1", "2", "3", "4", "5", "6", "7", "8", "9",
       "A", "B", "E", "I", "O", "U", "_",
       "a", "b", "e", "i", "l", "o", "s", "t", "u", "x" >>

Ord(c) == CHOOSE i \in 1..Len(Alphabet) : Alphabet[i] = c

Digits == <<"0", "1", "2", "3", "4", "5", "6", "7", "8", "9">>

IsDigit(c) == \E i \in 1..10 : Digits[i] = c

DigitVal(c) == (CHOOSE i \in 1..10 : Digits[i] = c) - 1

\* str.lower() and str.upper() of one character
LowerChar(c) ==
    CASE c = "A" -> "a" [] c = "B" -> "b" [] c = "E" -> "e" [] c = "I" -> "i"
      [] c = "O" -> "o" [] c = "U" -> "u" [] OTHER -> c

UpperChar(c) ==
    CASE c = "a" -> "A" [] c = "b" -> "B" [] c = "e" -> "E" [] c = "i" -> "I"
      [] c = "o" -> "O" [] c = "u" -> "U" [] OTHER -> c

IsUpper(c) == LowerChar(c) # c

\* s.lower()
RECURSIVE Lower(_)
Lower(s) == IF s = <<>> THEN <<>> ELSE <<LowerChar(Head(s))>> \o Lower(Tail(s))

\* s.lstrip(), s.rstrip(), s.strip()
RECURSIVE LStrip(_)
LStrip(s) == IF s # <<>> /\ Head(s) = " " THEN LStrip(Tail(s)) ELSE s

RECURSIVE RStrip(_)
RStrip(s) ==
    IF s # <<>> /\ s[Len(s)] = " " THEN RStrip(SubSeq(s, 1, Len(s) - 1)) ELSE s

Strip(s) == RStrip(LStrip(s))

\* s.rstrip("s")
RECURSIVE RStripS(_)
RStripS(s) ==
    IF s # <<>> /\ s[Len(s)] = "s" THEN RStripS(SubSeq(s, 1, Len(s) - 1))
    ELSE s

\* a < b for strings (comparison by code points)
RECURSIVE StrLess(_, _)
StrLess(a, b) ==
    IF b = <<>> THEN FALSE
    ELSE IF a = <<>> THEN TRUE
    ELSE IF Head(a) # Head(b) THEN Ord(Head(a)) < Ord(Head(b))
    ELSE StrLess(Tail(a), Tail(b))

\* s.split(): the words of s
RECURSIVE Split(_)
Split(s) ==
    LET t == LStrip(s)
        n == IF \E i \in 1..Len(t) : t[i] = " "
               THEN (CHOOSE i \in 1..Len(t) :
                        t[i] = " " /\ \A j \in 1..(i - 1) : t[j] # " ") - 1
               ELSE Len(t)
    IN  IF t = <<>> THEN <<>>
        ELSE <<SubSeq(t, 1, n)>> \o Split(SubSeq(t, n + 1, Len(t)))

\* " ".join(parts)
RECURSIVE Join(_)
Join(parts) ==
    IF parts = <<>> THEN <<>>
    ELSE IF Len(parts) = 1 THEN parts[1]
    ELSE parts[1] \o <<" ">> \o Join(Tail(parts))

\* str(n) of an integer
RECURSIVE StrNat(_)
StrNat(n) ==
    IF n < 10 THEN <<Digits[n + 1]>>
    ELSE StrNat(n \div 10) \o <<Digits[(n % 10) + 1]>>

StrInt(n) == IF n < 0 THEN <<"-">> \o StrNat(-n) ELSE StrNat(n)

\* is_number(s) on the strings of the model: float() takes a digit string
IsNumber(s) ==
    LET t == Strip(s) IN t # <<>> /\ \A i \in 1..Len(t) : IsDigit(t[i])

\* int(float(s)) of a digit string
RECURSIVE NumVal(_)
NumVal(s) ==
    IF s = <<>> THEN 0
    ELSE NumVal(SubSeq(s, 1, Len(s) - 1)) * 10 + DigitVal(s[Len(s)])

\* _fmt_number(n) of n = t / 10
FmtNumber(t) ==
    IF t % 10 = 0 THEN StrInt(Trunc(t, 10))
    ELSE (IF t < 0 THEN <<"-">> ELSE <<>>)
             \o StrNat(Abs(t) \div 10) \o <<".">> \o StrNat(Abs(t) % 10)

Vowels == <<"a", "e", "i", "o", "u">>

IsVowel(c) == \E i \in 1..5 : Vowels[i] = LowerChar(c)

\* _simple_typo(word): the possible results
SimpleTypo(word) ==
    IF Len(word) <= 2 THEN {word \o <<"x">>}
    ELSE LET swapped(i) ==
                 [k \in 1..Len(word) |->
                     IF k = i + 1 THEN word[i + 2]
                     ELSE IF k = i + 2 THEN word[i + 1] ELSE word[k]]
             vowelled ==
                 IF \E k \in 1..Len(word) : IsVowel(word[k])
                   THEN LET k == CHOOSE k \in 1..Len(word) :
                                     /\ IsVowel(word[k])
                                     /\ \A j \in 1..(k - 1) : ~IsVowel(word[j])
                        IN  { [word EXCEPT ![k] =
                                   IF IsUpper(word[k]) THEN UpperChar(Vowels[v])
                                   ELSE Vowels[v]] :
                              v \in {v \in 1..5 : Vowels[v] # LowerChar(word[k])} }
                   ELSE {word \o <<"1">>}
         IN  UNION { IF Lower(<<>> \o swapped(i)) # Lower(word)
                       THEN {<<>> \o swapped(i)} ELSE vowelled :
                     i \in 1..Max(1, Len(word) - 2) }

\* the orders random.shuffle can leave a list in
Shuffles(s) ==
    { [i \in 1..Len(s) |-> s[p[i]]] :
      p \in {q \in [1..Len(s) -> 1..Len(s)] :
                \A i, j \in 1..Len(s) : q[i] = q[j] => i = j} }

\* _swap_words_phrase(phrase): the possible results
SwapWordsPhrase(phrase) ==
    IF Len(Split(phrase)) <= 1 THEN {phrase}
    ELSE {Join(<<>> \o p) : p \in Shuffles(Split(phrase))}

\* the best block of find_longest_match: the longest, of those the earliest
\* in a, of those the earliest in b
BestBlock(blocks) ==
    CHOOSE t \in blocks :
        \A u \in blocks :
            \/ u[3] < t[3]
            \/ u[3] = t[3] /\ (t[1] < u[1] \/ (t[1] = u[1] /\ t[2] <= u[2]))

\* the blocks a[i:i+k] == b[j:j+k] within a[alo:ahi] and b[blo:bhi]
Blocks(a, alo, ahi, b, blo, bhi) ==
    { t \in (alo..(ahi - 1)) \X (blo..(bhi - 1)) \X (1..(ahi - alo)) :
        /\ t[1] + t[3] <= ahi
        /\ t[2] + t[3] <= bhi
        /\ \A d \in 1..t[3] : a[t[1] + d] = b[t[2] + d] }

\* the characters in the matching blocks of SequenceMatcher(None, a, b)
RECURSIVE Matches(_, _, _, _, _, _)
Matches(a, alo, ahi, b, blo, bhi) ==
    IF Blocks(a, alo, ahi, b, blo, bhi) = {} THEN 0
    ELSE LET t == BestBlock(Blocks(a, alo, ahi, b, blo, bhi))
         IN  t[3] + Matches(a, alo, t[1], b, blo, t[2])
                  + Matches(a, t[1] + t[3], ahi, b, t[2] + t[3], bhi)

\* 2.0 * matches / length as a pair <<numerator, denominator>>; 1.0 for
\* two empty strings
Ratio(a, b) ==
    IF Len(a) + Len(b) = 0 THEN <<1, 1>>
    ELSE <<2 * Matches(a, 0, Len(a), b, 0, Len(b)), Len(a) + Len(b)>>

\* x comes before y in heapq.nlargest of (score, string) pairs
Before(rx, x, ry, y) ==
    \/ rx[1] * ry[2] > ry[1] * rx[2]
    \/ rx[1] * ry[2] = ry[1] * rx[2] /\ StrLess(y, x)

\* the pool entries of the indices idx, best first
RECURSIVE BestFirst(_, _, _)
BestFirst(word, pool, idx) ==
    IF idx = {} THEN <<>>
    ELSE LET i == CHOOSE i \in idx :
                     \A j \in idx :
                         ~Before(Ratio(pool[j], word), pool[j],
                                 Ratio(pool[i], word), pool[i])
         IN  <<pool[i]>> \o BestFirst(word, pool, idx \ {i})

\* difflib.get_close_matches(word, pool, n=20, cutoff=0.55)
CloseMatches(word, pool) ==
    LET all == BestFirst(word, pool,
                   {i \in 1..Len(pool) :
                       Ratio(pool[i], word)[1] * 100
                           >= 55 * Ratio(pool[i], word)[2]})
    IN  SubSeq(all, 1, Min(20, Len(all)))

\* sorted(pool, key=lambda p: abs(len(p) - len(correct))): stable
RECURSIVE SortedByLength(_, _, _)
SortedByLength(correct, pool, idx) ==
    IF idx = {} THEN <<>>
    ELSE LET key(i) == Abs(Len(pool[i]) - Len(correct))
             i == CHOOSE i \in idx :
                     \A j \in idx : key(i) < key(j) \/ (key(i) = key(j) /\ i <= j)
         IN  <<pool[i]>> \o SortedByLength(correct, pool, idx \ {i})

\* add_candidate(x) without the comparison with the correct answer
AddCandidateAny(correct, c, x) ==
    IF x = <<>> \/ Lower(Strip(x)) \in {Lower(c[i]) : i \in 1..Len(c)}
      THEN c
      ELSE Append(c, Strip(x))

\* add_candidate(x); c is the list of candidates, seen are their lower-case
\* forms
AddCandidate(correct, c, x) ==
    IF \/ x = <<>>
       \/ Lower(Strip(x)) = Lower(correct)
       \/ Lower(Strip(x)) \in {Lower(c[i]) : i \in 1..Len(c)}
      THEN c
      ELSE Append(c, Strip(x))

\* add_candidate for each element of xs in turn
RECURSIVE AddAll(_, _, _)
AddAll(correct, c, xs) ==
    IF xs = <<>> THEN c
    ELSE AddAll(correct, AddCandidate(correct, c, Head(xs)), Tail(xs))

\* add_candidate for each element of xs in turn, until n candidates
RECURSIVE AddUntil(_, _, _, _)
AddUntil(correct, c, xs, n) ==
    IF xs = <<>> THEN c
    ELSE LET c1 == AddCandidate(correct, c, Head(xs))
         IN  IF Len(c1) >= n THEN c1 ELSE AddUntil(correct, c1, Tail(xs), n)

\* the draws of random.choice([-3, -2, -1, 1, 2, 3])
JitterChoices == {-3, -2, -1, 1, 2, 3}

\* the candidate lists after k more jitter candidates; cs is a set of lists,
\* v the value in tenths
RECURSIVE Jittered(_, _, _, _)
Jittered(correct, cs, v, k) ==
    IF k = 0 THEN cs
    ELSE Jittered(correct,
             { AddCandidate(correct, c,
                   FmtNumber(v + j * (IF Abs(v) < 100 THEN 5 ELSE 10))) :
               c \in cs, j \in JitterChoices },
             v, k - 1)

\* 1) numeric heuristics
NumericCandidates(correct) ==
    IF ~IsNumber(correct) THEN {<<>>}
    ELSE LET ival == NumVal(correct)
             v == 10 * ival
         IN  IF 1000 <= ival /\ ival <= 2100
               THEN { AddAll(correct, <<>>,
                        << StrInt(ival + 1), StrInt(ival - 1), StrInt(ival + 5),
                           StrInt(ival - 5), StrInt(ival + 10),
                           StrInt(ival - 10) >>) }
               ELSE Jittered(correct,
                      { AddAll(correct, <<>>,
                          << FmtNumber(v - 10), FmtNumber(v + 10),
                             FmtNumber(v - 20), FmtNumber(v + 20),
                             FmtNumber(v * 10),
                             FmtNumber(IF v # 0 THEN ival ELSE v + 30) >>) },
                      v, 5)

\* 3) word-level transforms of a single word or of a phrase; the possible
\* lists
WordCandidates(correct, c) ==
    IF \A i \in 1..Len(correct) : correct[i] # " "
      THEN { AddCandidate(correct, AddCandidate(correct, c, t),
                 IF correct = <<>> \/ correct[Len(correct)] # "s"
                   THEN correct \o <<"s">>
                   ELSE IF RStripS(correct) # <<>> THEN RStripS(correct)
                        ELSE correct \o <<"1">>) :
             t \in SimpleTypo(correct) }
      ELSE { LET c1 == AddCandidate(correct, c, w)
                 parts == Split(correct)
             IN  IF Len(parts) > 1
                   THEN AddAll(correct, c1,
                          << Join(SubSeq(parts, 1, Len(parts) - 1)),
                             Join(Tail(parts)) >>)
                   ELSE c1 :
             w \in SwapWordsPhrase(correct) }

\* _wordnet_synonyms(term) when WordNet holds the names wn for the term
WordnetSynonyms(term, wn) ==
    SelectSeq(wn, LAMBDA name : Lower(name) # Lower(term))

\* f"{correct}_alt{i}"
AltName(correct, i) == correct \o <<"_", "a", "l", "t">> \o StrNat(i)

\* 5) final fallbacks
RECURSIVE Fallbacks(_, _, _, _)
Fallbacks(correct, c, n, i) ==
    IF Len(c) < n /\ i < 30
      THEN Fallbacks(correct, AddCandidate(correct, c, AltName(correct, i)),
                     n, i + 1)
      ELSE c

\* steps 2 to 5 for one list of candidates of step 1: the possible lists
LaterCandidates(correct, pool, wn, n, c1) ==
    LET c2 == AddUntil(correct, c1, CloseMatches(correct, pool), n)
        c3s == IF Len(c2) < n
                 THEN { IF Len(w) < n
                          THEN AddUntil(correct, w,
                                 LET ps == SortedByLength(correct, pool,
                                                          1..Len(pool))
                                 IN  SubSeq(ps, 1, Min(12, Len(ps))), n)
                          ELSE w :
                        w \in WordCandidates(correct, c2) }
                 ELSE {c2}
    IN  { Fallbacks(correct,
              IF Len(c3) < n
                THEN AddUntil(correct, c3,
                       WordnetSynonyms(
                           IF Split(correct) # <<>> THEN Split(correct)[1]
                           ELSE correct, wn), n)
                ELSE c3,
              n, 0) :
          c3 \in c3s }

\* the pool of make_distractors: stripped, without empty strings and without
\* the correct answer
RECURSIVE CleanPool(_, _)
CleanPool(correct, pool) ==
    IF pool = <<>> THEN <<>>
    ELSE (IF Strip(Head(pool)) = <<>>
             \/ Lower(Strip(Head(pool))) = Lower(correct)
            THEN <<>> ELSE <<Strip(Head(pool))>>)
         \o CleanPool(correct, Tail(pool))

\* the candidate lists make_distractors can have before its final shuffle
Candidates(correct, pool, wn, n) ==
    UNION { LaterCandidates(Strip(correct), CleanPool(Strip(correct), pool),
                            wn, n, c1) :
            c1 \in NumericCandidates(Strip(correct)) }

\* random.shuffle(candidates); candidates[:n]: the possible results
FirstAfterShuffle(c, n) ==
    { <<>> \o r : r \in { q \in [1..Min(n, Len(c)) -> Range(c)] :
                            \A i, j \in 1..Min(n, Len(c)) :
                                q[i] = q[j] => i = j } }

\* make_distractors(correct, pool, n): the lists it can return
MakeDistractors(correct, pool, wn, n) ==
    UNION { FirstAfterShuffle(c, n) : c \in Candidates(correct, pool, wn, n) }

(***************************************************************************)
(* Specification of make_distractors: one call on an answer, a pool and    *)
(* the names WordNet has for the answer.                                   *)
(***************************************************************************)
MaxPool == 2

\* n of make_distractors(correct, pool, n=3)
N_DISTRACTORS == 3

\* answers that are not numbers: empty, blank, words, phrases, untrimmed
WordCorrects ==
    { <<>>, <<" ">>, <<"a">>, <<"a", "s">>, <<"A", "b", "s">>,
      <<"b", "b", "b">>, <<"a", "b", "b">>, <<"a", " ", "b">>,
      <<"a", " ", "a">>, <<" ", "a", "b", " ">> }

\* numeric answers: below 10, zero, general, year-like
NumCorrects == { <<"7">>, <<"0">>, <<"1", "2">>, <<"2", "0", "0", "0">> }

WordPoolStrings ==
    { <<"a">>, <<"A", "B">>, <<"a", "b">>, <<"a", "b", "s">>, <<" ">>,
      <<"a", "_", "a", "l", "t", "0">> }

NumPoolStrings == { <<"7">>, <<"1", "2", "0">> }

\* the pools of at most MaxPool entries
Pools(strings) == UNION { [1..k -> strings] : k \in 0..MaxPool }

WordNets == { <<>>, << <<"A">>, <<"b">>, <<"B">> >> }

DistractorInputs ==
    [correct : WordCorrects, pool : Pools(WordPoolStrings), wn : WordNets]
        \cup [correct : NumCorrects, pool : Pools(NumPoolStrings), wn : {<<>>}]

InitDistractors ==
    /\ enemy = EnemyNew([path |-> EmptyPath, speed |-> 10, upp |-> 1])
    /\ \E in \in DistractorInputs :
          call = [op |-> "none", correct |-> in.correct, pool |-> in.pool,
                  wn |-> in.wn, result |-> <<>>]
    /\ ticks = 0
    /\ dtc = 0
    /\ shot = NoShot
    /\ game = NoGame

CallMakeDistractors ==
    /\ call.op = "none"
    /\ \E r \in MakeDistractors(call.correct, call.pool, call.wn,
                                N_DISTRACTORS) :
          call' = [call EXCEPT !.op = "make_distractors", !.result = r]
    /\ UNCHANGED <<enemy, ticks, dtc, shot, game>>

NextDistractors == CallMakeDistractors

SpecDistractors == InitDistractors /\ [][NextDistractors]_vars

\* C13: make_distractors(correct, pool, n=3) returns exactly n strings that
\* are pairwise distinct case-insensitively and none of which equals the
\* trimmed correct answer case-insensitively.
C13_DistractorsDistinct ==
    call.op = "make_distractors" =>
        /\ Len(call.result) = N_DISTRACTORS
        /\ \A i, j \in 1..Len(call.result) :
               Lower(call.result[i]) = Lower(call.result[j]) => i = j
        /\ \A i \in 1..Len(call.result) :
               Lower(call.result[i]) # Lower(Strip(call.correct))

\* the call was made on a pool that holds the correct answer in another
\* case and twice the same distractor
C13_Witness ==
    /\ call.op = "make_distractors"
    /\ call.correct = <<"a", "b", "b">>
    /\ call.pool = << <<"A", "B">>, <<"a", "b">> >>
    /\ call.result[1] = <<"a", "b">>

(***************************************************************************)
(* Specification of the question rounds of the space and cowboy games:     *)
(* load_next_question on a list of questions, with the choices it builds.  *)
(***************************************************************************)
\* the answers of the questions of a CSV file, as load_questions strips
\* them: no question, one question, answers that differ in case only, an
\* empty answer, a word and a phrase
AnswerLists ==
    { <<>>, << <<"a">> >>, << <<"a">>, <<"A">> >>, << <<>>, <<"a">> >>,
      << <<"a", "b">>, <<"a", " ", "b">> >> }

QuizConfigs ==
    [answers : AnswerLists, mode : {"loop", "one_each"}, wn : WordNets]

\* the game before its first question
QuizNew(cfg) ==
    [ questions |-> cfg.answers, answer_pool |-> cfg.answers, wn |-> cfg.wn,
      nq |-> Len(cfg.answers), mode |-> cfg.mode, state |-> "asking",
      lives |-> 3, question_index |-> 0, has_q |-> FALSE,
      current_a |-> <<>>, choices |-> <<>>, correct_choice_index |-> -1,
      tbq_ms |-> None, question_timer_ms |-> None ]

\* list.index(x) of an element of the list, counted from 0
IndexOf(s, x) ==
    (CHOOSE i \in 1..Len(s) : s[i] = x /\ \A j \in 1..(i - 1) : s[j] # x) - 1

\* the choices of a round when the list of the previous round is kept
ChoicesKept(old, distractors, answer) ==
    {old \o (<<>> \o s) : s \in Shuffles(distractors \o <<answer>>)}

\* self.choices = distractors + [answer]; random.shuffle(self.choices)
Choices(old, distractors, answer) ==
    {<<>> \o s : s \in Shuffles(distractors \o <<answer>>)}

\* the round of the question qs[k]: current_q, choices, correct_choice_index
Rounds(n, old, qs, k) ==
    UNION { { [n EXCEPT !.questions = qs, !.current_a = qs[k],
                        !.choices = ch,
                        !.correct_choice_index = IndexOf(ch, qs[k])] :
              ch \in Choices(old, d, qs[k]) } :
            d \in MakeDistractors(qs[k], n.answer_pool, n.wn, N_DISTRACTORS) }

\* load_next_question() with the list of questions, current_q, choices and
\* correct_choice_index: the games it can leave
LoadNextQuestionChoices(g) ==
    IF ~LoadNextQuestion(g).has_q
      THEN { [LoadNextQuestion(g) EXCEPT !.choices = <<>>,
                                         !.correct_choice_index = -1] }
      ELSE UNION { Rounds(LoadNextQuestion(g), g.choices, <<>> \o qs,
                          LoadNextQuestion(g).question_index) :
                   qs \in (IF g.question_index >= g.nq
                             THEN Shuffles(g.questions) ELSE {g.questions}) }

InitQuiz ==
    /\ enemy = EnemyNew([path |-> EmptyPath, speed |-> 10, upp |-> 1])
    /\ call = NoCall
    /\ ticks = 0
    /\ dtc = 0
    /\ shot = NoShot
    /\ \E cfg \in QuizConfigs : game = QuizNew(cfg)

NextQuestion ==
    /\ game.state \notin Finished
    /\ game' \in LoadNextQuestionChoices(game)
    /\ UNCHANGED <<enemy, call, ticks, dtc, shot>>

NextQuiz == NextQuestion

SpecQuiz == InitQuiz /\ [][NextQuiz]_vars

\* C12: when load_next_question returns with a current question, choices
\* holds exactly 4 strings, the correct answer and 3 distractors, exactly
\* one entry equals the correct answer and correct_choice_index is its
\* index; nothing of the previous round's choices is kept.
C12_FourChoicesOneCorrect ==
    (game.state = "asking" /\ game.has_q) =>
        /\ Len(game.choices) = N_DISTRACTORS + 1
        /\ Cardinality({i \in 1..Len(game.choices) :
                           game.choices[i] = game.current_a}) = 1
        /\ game.correct_choice_index \in 0..(Len(game.choices) - 1)
        /\ game.choices[game.correct_choice_index + 1] = game.current_a
        /\ game.current_a = game.questions[game.question_index]
        /\ \A i, j \in 1..Len(game.choices) :
               Lower(game.choices[i]) = Lower(game.choices[j]) => i = j

\* the second round of a list whose answers differ only in case
C12_Witness ==
    /\ game.state = "asking"
    /\ game.has_q
    /\ game.questions = << <<"a">>, <<"A">> >>
    /\ game.question_index = 2
    /\ game.correct_choice_index = 3

(***************************************************************************)
(* Specification of the tower-defense game with frames that keep being     *)
(* processed: run() loops until the player quits, so a frame is taken      *)
(* whenever one is possible.  The frames are not counted; the player stops *)
(* giving correct answers at MaxTdScore points, which bounds the score.    *)
(* ticks is the parity of the number of frames: every pass of the loop     *)
(* flips it, and the loop makes pass after pass (while running).           *)
(***************************************************************************)
MaxTdScore == 200

TdLiveConfigs ==
    [ mode : {"loop", "one_each"}, lives : {NoLimit, 1},
      total_time_ms : {None}, tbq : {3}, nq : {2},
      path_len : {760}, flight : {2} ]

TdLiveDts == {1000}

InitTdLive ==
    /\ enemy = EnemyNew([path |-> EmptyPath, speed |-> 10, upp |-> 1])
    /\ call = NoCall
    /\ ticks = 0
    /\ dtc = 0
    /\ shot = NoShot
    /\ \E cfg \in TdLiveConfigs : game = TdGameNew(cfg)

TdFrameLive ==
    /\ \E click \in Clicks, canfire \in BOOLEAN, keys \in TdKeys,
          dt \in TdLiveDts, overlap \in 0..MAX_CREATURES :
          /\ overlap <= Len(game.creatures)
          /\ click # "none" => game.state = "asking" /\ game.has_q
          /\ click = "correct" => game.score < MaxTdScore
          /\ ~canfire => click = "correct"
          /\ game' = [TdFrameDone(game, click, canfire, overlap, keys, dt)
                        EXCEPT !.frame = 0]
    /\ ticks' = 1 - ticks
    /\ UNCHANGED <<enemy, call, dtc, shot>>

NextTdLive == TdFrameLive

\* one more pass of the loop
FrameClock == ticks' = 1 - ticks

SpecTdLive == InitTdLive /\ [][NextTdLive]_vars /\ WF_ticks(FrameClock)

\* C14 (tower defense): after a correct answer has put the game into state
\* playing, it is eventually asking with a current question again, or won,
\* or game_over, when frames keep being processed.  Violated: a correct
\* answer that is not the last one of a one_each run sets playing without
\* finish_after_hit, and no statement of the loop leaves playing then.
C14_PlayingEnds ==
    (game.state = "playing")
        ~> ((game.state = "asking" /\ game.has_q) \/ game.state \in Finished)

\* a frame that starts in won or game_over and does not restart the run
\* ends in the state it started in
FinishedKept(g, h) ==
    (TdFrameStep(g, h) /\ g.state \in Finished /\ ~h.restarted) =>
        h.state = g.state

\* C15: once the state of a run is won or game_over it stays exactly that
\* value until the player restarts with R.  Violated in the tower-defense
\* game: the creature update and the finish_after_hit block run in every
\* frame, whatever the state.
C15_FinishedStable == [][FinishedKept(game, game')]_vars

\* C16: with initial lives >= 1, finite lives never become negative: lives
\* is unlimited or an integer >= 0, and lives = 0 implies state game_over.
\* Violated in the tower-defense game: creatures keep arriving after the
\* run is over and every arrival takes another life.
C16_LivesNeverNegative ==
    /\ game.lives = NoLimit \/ game.lives >= 0
    /\ game.lives = 0 => game.state = "game_over"

(***************************************************************************)
(* Properties of the waves and the questions of the space game.            *)
(***************************************************************************)
\* h is the game one frame after g, and R was not held in the frame
FrameStep(g, h) == h.frame = g.frame + 1 /\ h.input.keys # "r"

\* the enemies of g that are no longer in the group of h
Destroyed(g, h) ==
    { e.id : e \in Range(g.enemies) } \ { e.id : e \in Range(h.enemies) }

\* a frame that spawned a wave destroyed every enemy there was before it
WaveOnlyWhenCleared(g, h) ==
    (FrameStep(g, h) /\ h.wave # g.wave) =>
        Cardinality(Destroyed(g, h)) * HIT_SCORE = h.score - g.score

\* C17: in the space game a new wave is spawned only when all enemies of the
\* current wave have been destroyed, or on restart, whichever collision
\* path registered the hit.  Violated: the proximity path spawns a wave
\* after every hit.
C17_WaveOnlyWhenCleared == [][WaveOnlyWhenCleared(game, game')]_vars

\* the question timer of g runs out in a frame of dt milliseconds
TimerExpires(g, dt) ==
    g.state = "asking" /\ g.question_timer_ms # None
        /\ g.question_timer_ms - dt <= 0

\* the current question of g was answered, or timed out, in the frame to h,
\* or it is the last question, answered before and kept until the hit
Settled(g, h) ==
    \/ h.input.click # "none"
    \/ TimerExpires(g, h.input.dt)
    \/ g.finish_after_hit

\* the frame replaced the current question of g: by the next question of
\* the list, or by none when the list is exhausted
Replaced(g, h) ==
    g.has_q /\ (h.question_index # g.question_index \/ ~h.has_q)

\* in one_each mode the questions are asked one after the other, and a
\* question is replaced only when it has been answered or has timed out
OneEachInOrder(g, h) ==
    (FrameStep(g, h) /\ g.mode = "one_each" /\ Replaced(g, h)) =>
        /\ Settled(g, h)
        /\ \/ h.has_q /\ h.question_index = g.question_index + 1
           \/ ~h.has_q /\ h.question_index = g.question_index
                       /\ g.question_index = g.nq

(***************************************************************************)
(* Specification of a space-game run over more questions than a wave has   *)
(* enemies: the player stands still and answers every question correctly,  *)
(* as soon as the aim is exact.                                            *)
(***************************************************************************)
MaxWaveFrames == 1200

WaveConfigs ==
    [ mode : {"loop", "one_each"}, lives : {None}, total_time_ms : {None},
      tbq_ms : {None}, nq : {ENEMIES_PER_WAVE + 1}, eh : {ENEMY_H} ]

\* the click of a player who answers correctly at the first exact aim
AnswerAtOnce(g) ==
    IF g.state = "asking" /\ g.has_q /\ g.enemies # <<>> /\ ExactAim(g)
      THEN "correct" ELSE "none"

InitWaves ==
    /\ enemy = EnemyNew([path |-> EmptyPath, speed |-> 10, upp |-> 1])
    /\ call = NoCall
    /\ ticks = 0
    /\ dtc = 0
    /\ shot = NoShot
    /\ \E cfg \in WaveConfigs : game = GameNew(cfg)

WaveFrame ==
    /\ game.frame < MaxWaveFrames
    /\ game.state \notin Finished
    /\ \E dt \in FrameDts :
          game' = FrameDone(game, AnswerAtOnce(game), "none", dt)
    /\ UNCHANGED <<enemy, call, ticks, dtc, shot>>

NextWaves == WaveFrame

SpecWaves == InitWaves /\ [][NextWaves]_vars

\* C18: in one_each mode every question of the loaded list becomes the
\* current question exactly once, in list order, and a loaded question is
\* never replaced by the next one before the player has answered it or its
\* timer has expired, also for lists longer than one wave.  Violated: the
\* hit that clears a wave of 18 loads the next question a second time.
C18_OneEachInOrder == [][OneEachInOrder(game, game')]_vars

(***************************************************************************)
(* Specification of runs of the space game with finite lives and the two   *)
(* timers: the player stands still, answers correctly when the aim is      *)
(* exact and answers wrongly at any time; the run is followed to its end   *)
(* screen.                                                                 *)
(***************************************************************************)
MaxLivesFrames == 215

LivesConfigs ==
    [ mode : {"loop", "one_each"}, lives : {None, 1, 2},
      total_time_ms : {None, 2016}, tbq_ms : {None, 3000}, nq : {1, 2},
      eh : {ENEMY_H} ]

\* the inputs the specification follows: a click answers a question that is
\* asked, a correct answer is given when the aim is exact
LivesFollowed(g, click) ==
    /\ click # "none" => g.state = "asking" /\ g.has_q
    /\ (click = "correct" /\ g.enemies # <<>>) => ExactAim(g)

InitLives ==
    /\ enemy = EnemyNew([path |-> EmptyPath, speed |-> 10, upp |-> 1])
    /\ call = NoCall
    /\ ticks = 0
    /\ dtc = 0
    /\ shot = NoShot
    /\ \E cfg \in LivesConfigs : game = GameNew(cfg)

LivesFrame ==
    /\ game.frame < MaxLivesFrames
    /\ game.state \notin Finished
    /\ \E click \in Clicks, dt \in FrameDts :
          /\ LivesFollowed(game, click)
          /\ game' = FrameDone(game, click, "none", dt)
    /\ UNCHANGED <<enemy, call, ticks, dtc, shot>>

NextLives == LivesFrame

SpecLives == InitLives /\ [][NextLives]_vars

\* the frame from g to h answers the last question of a one_each run
\* correctly while enemies exist
LastAnswered(g, h) ==
    /\ FrameStep(g, h)
    /\ g.mode = "one_each" /\ g.state = "asking" /\ g.has_q
    /\ g.question_index >= g.nq /\ g.enemies # <<>>
    /\ h.input.click = "correct"

\* the run goes on until the shot has hit
FinishDeferred(g, h) ==
    LastAnswered(g, h) => h.state = "playing" /\ h.finish_after_hit

\* a run waiting for the hit is won in a frame that registered a hit
WonByHit(g, h) ==
    (FrameStep(g, h) /\ g.finish_after_hit /\ h.state = "won") =>
        h.hit # "none"

\* when a one_each run has no question left it is won with lives left and
\* lost without
OutcomeByLives(g, h) ==
    (FrameStep(g, h) /\ g.mode = "one_each" /\ g.has_q /\ ~h.has_q) =>
        h.state = IF h.lives = None \/ h.lives > 0 THEN "won" ELSE "game_over"

\* the session time runs out in the frame from g to h
SessionExpires(g, h) ==
    g.session_time_ms # None
        /\ g.session_elapsed_ms + h.input.dt >= g.session_time_ms

\* the run goes on until the shot has hit, unless its time is up
FinishDeferredInTime(g, h) ==
    LastAnswered(g, h) =>
        \/ h.state = "playing" /\ h.finish_after_hit
        \/ SessionExpires(g, h) /\ h.state = "game_over"
                                /\ ~h.finish_after_hit

WrongAnswered(g, h) ==
    /\ FrameStep(g, h)
    /\ g.state = "asking" /\ g.has_q
    /\ h.input.click = "wrong"

\* the ids of the enemies
EnemyIds(g) == { e.id : e \in Range(g.enemies) }

\* what a wrong answer does to lives, score and targets
WrongCostsOneLife(g, h) ==
    /\ h.lives = IF g.lives = None THEN None ELSE g.lives - 1
    /\ h.score = g.score
    /\ EnemyIds(h) = EnemyIds(g) /\ Len(h.enemies) = Len(g.enemies)

\* a wrong answer ends the run when the lives are used up and asks another
\* question otherwise (the session time may run out in the same frame)
WrongAsksNext(g, h) ==
    IF h.lives # None /\ h.lives <= 0
      THEN h.state = "game_over"
    ELSE IF SessionExpires(g, h) /\ h.state = "game_over"
      THEN TRUE
      ELSE /\ h.state = "asking" /\ h.has_q
           /\ h.question_index # g.question_index

\* the same, the run being won after the last question of a one_each run,
\* the list being asked again from its first question in loop mode, and the
\* run being over when the session time runs out in the frame
WrongAsksNextOrEnds(g, h) ==
    IF h.lives # None /\ h.lives <= 0
      THEN h.state = "game_over"
    ELSE IF g.mode = "one_each" /\ g.question_index >= g.nq
      THEN h.state = "won" /\ ~h.has_q
    ELSE IF SessionExpires(g, h)
      THEN h.state = "game_over"
      ELSE /\ h.state = "asking" /\ h.has_q
           /\ h.question_index = (g.question_index % g.nq) + 1

C21_QuestionTimerArmed ==
    (game.tbq_ms # None /\ game.state = "asking" /\ game.has_q) =>
        (game.question_timer_ms # None
            /\ game.question_timer_ms <= game.tbq_ms)

(***************************************************************************)
(* Specification of timed runs of the space game in which no shot is       *)
(* fired: the formation drifts and descends while questions are asked.     *)
(***************************************************************************)
MaxDescentFrames == 120

\* total_time of 5 minutes, the shortest the settings screen accepts, and
\* of 10 minutes
DescentConfigs ==
    [ mode : {"loop", "one_each"}, lives : {None},
      total_time_ms : {300000, 600000}, tbq_ms : {None}, nq : {3},
      eh : {ENEMY_H} ]

DescentClicks == {"none", "wrong"}

InitDescent ==
    /\ enemy = EnemyNew([path |-> EmptyPath, speed |-> 10, upp |-> 1])
    /\ call = NoCall
    /\ ticks = 0
    /\ dtc = 0
    /\ shot = NoShot
    /\ \E cfg \in DescentConfigs : game = GameNew(cfg)

DescentFrame ==
    /\ game.frame < MaxDescentFrames
    /\ game.state \notin Finished
    /\ \E click \in DescentClicks, dt \in FrameDts :
          /\ click # "none" => game.state = "asking" /\ game.has_q
          /\ game' = FrameDone(game, click, "none", dt)
    /\ UNCHANGED <<enemy, call, ticks, dtc, shot>>

NextDescent == DescentFrame

SpecDescent == InitDescent /\ [][NextDescent]_vars

\* the formation has neither bounced nor been spawned again
FirstPass(g) == g.enemy_dir = 1 /\ g.wave = 1

\* every enemy is as far below its initial row as the elapsed part of the
\* session time asks for, up to a pixel
DescentOnTime(g) ==
    \A e \in Range(g.enemies) :
        Abs(g.session_time_ms * (e.y - e.init_y)
              - g.descent_needed * g.session_elapsed_ms)
            <= g.session_time_ms

\* C22: with a finite session time T the continuous descent is timed to the
\* session: over frames whose dt sum to T every enemy descends by
\* player_top - enemy_initial_top - 8 pixels in total, up to 1 pixel of
\* rounding.  Violated: the descent of a frame is added to an integer
\* rect coordinate and its fraction is lost in every frame.
C22_DescentTimedToSession ==
    (game.session_time_ms # None /\ game.state \notin Finished
        /\ FirstPass(game)) => DescentOnTime(game)

(***************************************************************************)
(* The settings screen (src/settings.py) and the launcher menu that opens  *)
(* it (src/main.py).  The Settings object is a record of the fields the    *)
(* three validated rows and the question-mode option write; settings.json  *)
(* is the record last written by Settings.save(), or NoFile.  A digit      *)
(* string of the form is the number it spells, the empty string is None    *)
(* (typing strips leading zeros, so every non-empty string is canonical).  *)
(***************************************************************************)
TBQ_MIN_S == 3
TBQ_MAX_S == 600
TOTAL_MIN_MIN == 5
TOTAL_MAX_MIN == 180
LIVES_MIN == 1
LIVES_MAX == 100

tbq_presets == <<10, 30, 60, 120>>
total_presets_min == <<5, 15, 30, 60>>
lives_presets == <<3, 5, 10>>

NoFile == [exists |-> FALSE]

\* Settings(): the dataclass defaults
SettingsDefault ==
    [time_between_questions |-> None, total_time |-> None, lives |-> 3,
     question_mode |-> "loop"]

\* len(str(v)) of a digit string
StrLen(v) ==
    IF v = None THEN 0
    ELSE IF v < 10 THEN 1 ELSE IF v < 100 THEN 2 ELSE IF v < 1000 THEN 3
    ELSE IF v < 10000 THEN 4 ELSE IF v < 100000 THEN 5 ELSE 6

\* (digits + ch).lstrip("0") or ch, when len(digits) < maxlen
TypedDigit(digits, ch, maxlen) ==
    IF StrLen(digits) < maxlen
    THEN (IF digits = None THEN ch ELSE digits * 10 + ch)
    ELSE digits

\* digits[:-1]
Backspaced(digits) ==
    IF digits = None \/ digits < 10 THEN None ELSE digits \div 10

secs_to_display(secs) ==
    IF secs = None THEN [digits |-> None, unit |-> "s", unlimited |-> TRUE]
    ELSE IF secs >= 60 /\ secs % 60 = 0
         THEN [digits |-> secs \div 60, unit |-> "m", unlimited |-> FALSE]
         ELSE [digits |-> secs, unit |-> "s", unlimited |-> FALSE]

totalsecs_to_display(secs) ==
    IF secs = None THEN [digits |-> None, unit |-> "m", unlimited |-> TRUE]
    ELSE LET mins == secs \div 60
         IN  IF mins >= 60 /\ mins % 60 = 0
             THEN [digits |-> mins \div 60, unit |-> "h", unlimited |-> FALSE]
             ELSE [digits |-> mins, unit |-> "m", unlimited |-> FALSE]

\* both conversions: the small unit is "s" (tbq) or "m" (total), the large
\* one "m" or "h", sixty small units to a large one
convert_digits_on_unit_change(digits, from_unit, to_unit, small, large) ==
    IF digits = None THEN None
    ELSE IF from_unit = to_unit THEN digits
    ELSE IF from_unit = small /\ to_unit = large
         THEN Max(1, Round(digits, 60))
    ELSE IF from_unit = large /\ to_unit = small THEN digits * 60
    ELSE digits

convert_tbq_digits_on_unit_change(digits, from_unit, to_unit) ==
    convert_digits_on_unit_change(digits, from_unit, to_unit, "s", "m")

convert_total_digits_on_unit_change(digits, from_unit, to_unit) ==
    convert_digits_on_unit_change(digits, from_unit, to_unit, "m", "h")

\* run_settings_screen up to its event loop: the form is filled from the
\* Settings object
ScreenOpened(g) ==
    LET t == secs_to_display(g.settings.time_between_questions)
        u == totalsecs_to_display(g.settings.total_time)
    IN  [g EXCEPT !.screen = "settings",
                  !.tbq_digits = t.digits, !.tbq_unit = t.unit,
                  !.tbq_unlimited = t.unlimited,
                  !.total_digits = u.digits, !.total_unit = u.unit,
                  !.total_unlimited = u.unlimited,
                  !.lives_unlimited = (g.settings.lives = None),
                  !.lives_digits = g.settings.lives,
                  !.mode_cur = g.settings.question_mode,
                  !.focused = "none", !.error = FALSE,
                  !.opens = @ + 1, !.op = "open"]

\* the three validations of the Save handler, each on the form as it is
TbqValid(g) ==
    g.tbq_unlimited
    \/ (g.tbq_digits # None
        /\ LET secs == IF g.tbq_unit = "s" THEN g.tbq_digits
                       ELSE g.tbq_digits * 60
           IN  secs >= TBQ_MIN_S /\ secs <= TBQ_MAX_S)

TotalValid(g) ==
    g.total_unlimited
    \/ (g.total_digits # None
        /\ LET mins == IF g.total_unit = "m" THEN g.total_digits
                       ELSE g.total_digits * 60
           IN  mins >= TOTAL_MIN_MIN /\ mins <= TOTAL_MAX_MIN)

LivesValid(g) ==
    g.lives_unlimited
    \/ (g.lives_digits # None
        /\ g.lives_digits >= LIVES_MIN /\ g.lives_digits <= LIVES_MAX)

TbqApplied(g) ==
    [g EXCEPT !.settings.time_between_questions =
        IF g.tbq_unlimited THEN None
        ELSE IF g.tbq_unit = "s" THEN g.tbq_digits ELSE g.tbq_digits * 60]

TotalApplied(g) ==
    [g EXCEPT !.settings.total_time =
        IF g.total_unlimited THEN None
        ELSE (IF g.total_unit = "m" THEN g.total_digits
              ELSE g.total_digits * 60) * 60]

LivesApplied(g) ==
    [g EXCEPT !.settings.lives =
        IF g.lives_unlimited THEN None ELSE g.lives_digits]

\* the last block of Save: the options, settings.save(), running = False
OptsSaved(g) ==
    LET s == [g.settings EXCEPT !.question_mode = g.mode_cur]
    IN  [g EXCEPT !.settings = s,
                  !.file = [exists |-> TRUE, data |-> s],
                  !.screen = "menu"]

Failed(g) == [g EXCEPT !.error = TRUE]

\* the Save button: each row is written into the Settings object as soon as
\* it validates, and the next row is looked at only if valid is still True
SaveClicked(g) ==
    LET g0 == [g EXCEPT !.op = "save"]
    IN  IF ~TbqValid(g0) THEN Failed(g0)
        ELSE LET g1 == TbqApplied(g0)
             IN  IF ~TotalValid(g1) THEN Failed(g1)
                 ELSE LET g2 == TotalApplied(g1)
                      IN  IF ~LivesValid(g2) THEN Failed(g2)
                          ELSE OptsSaved(LivesApplied(g2))

BackClicked(g) == [g EXCEPT !.screen = "menu", !.op = "back"]

TextboxClicked(g, f) == [g EXCEPT !.focused = f, !.op = "focus"]

\* the unit buttons of the first two rows
TbqUnitClicked(g, u) ==
    IF g.tbq_unlimited
    THEN [g EXCEPT !.tbq_unlimited = FALSE, !.tbq_unit = u,
                   !.tbq_digits =
                       IF @ # None THEN @
                       ELSE IF u = "s" THEN Max(TBQ_MIN_S, tbq_presets[1])
                       ELSE 1,
                   !.focused = "tbq", !.op = "unit"]
    ELSE [g EXCEPT !.tbq_digits =
                       convert_tbq_digits_on_unit_change(@, g.tbq_unit, u),
                   !.tbq_unit = u, !.focused = "tbq", !.op = "unit"]

TotalUnitClicked(g, u) ==
    IF g.total_unlimited
    THEN [g EXCEPT !.total_unlimited = FALSE, !.total_unit = u,
                   !.total_digits =
                       IF @ # None THEN @
                       ELSE IF u = "m"
                            THEN Max(TOTAL_MIN_MIN, total_presets_min[1])
                       ELSE 1,
                   !.focused = "total", !.op = "unit"]
    ELSE [g EXCEPT !.total_digits =
                       convert_total_digits_on_unit_change(@, g.total_unit, u),
                   !.total_unit = u, !.focused = "total", !.op = "unit"]

\* the "unlimited" toggles
UnlimitedClicked(g, f) ==
    IF f = "tbq"
    THEN IF ~g.tbq_unlimited
         THEN [g EXCEPT !.tbq_unlimited = TRUE, !.tbq_digits = None,
                        !.focused = f, !.op = "unlimited"]
         ELSE [g EXCEPT !.tbq_unlimited = FALSE,
                        !.tbq_digits = Max(TBQ_MIN_S, tbq_presets[1]),
                        !.tbq_unit = "s", !.focused = f, !.op = "unlimited"]
    ELSE IF f = "total"
    THEN IF ~g.total_unlimited
         THEN [g EXCEPT !.total_unlimited = TRUE, !.total_digits = None,
                        !.focused = f, !.op = "unlimited"]
         ELSE [g EXCEPT !.total_unlimited = FALSE,
                        !.total_digits =
                            Max(TOTAL_MIN_MIN, total_presets_min[1]),
                        !.total_unit = "m", !.focused = f,
                        !.op = "unlimited"]
    ELSE IF ~g.lives_unlimited
         THEN [g EXCEPT !.lives_unlimited = TRUE, !.lives_digits = None,
                        !.focused = f, !.op = "unlimited"]
         ELSE [g EXCEPT !.lives_unlimited = FALSE,
                        !.lives_digits = Max(LIVES_MIN, lives_presets[1]),
                        !.focused = f, !.op = "unlimited"]

\* the preset chips
ChipClicked(g, f, p) ==
    IF f = "tbq"
    THEN [g EXCEPT !.tbq_unlimited = FALSE, !.tbq_unit = "s",
                   !.tbq_digits = p, !.focused = f, !.op = "chip"]
    ELSE IF f = "total"
    THEN [g EXCEPT !.total_unlimited = FALSE, !.total_unit = "m",
                   !.total_digits = p, !.focused = f, !.op = "chip"]
    ELSE [g EXCEPT !.lives_unlimited = FALSE, !.lives_digits = p,
                   !.focused = f, !.op = "chip"]

\* a click on the "Question mode" option cycles its choices
OptClicked(g) ==
    [g EXCEPT !.mode_cur = IF @ = "loop" THEN "one_each" ELSE "loop",
              !.op = "opt"]

\* KEYDOWN: key is "escape", "return", "backspace" or a digit character
KeyDown(g, key) ==
    LET h == [g EXCEPT !.op = "key"]
    IN  IF g.focused = "none"
        THEN IF key = "escape" THEN [h EXCEPT !.screen = "menu"] ELSE h
        ELSE IF key \in {"escape", "return"}
        THEN [h EXCEPT !.focused = "none"]
        ELSE IF g.focused = "tbq"
        THEN IF key = "backspace"
             THEN [h EXCEPT !.tbq_digits = Backspaced(@),
                            !.tbq_unlimited =
                                IF Backspaced(g.tbq_digits) = None
                                THEN TRUE ELSE @]
             ELSE [h EXCEPT !.tbq_unlimited = FALSE,
                            !.tbq_digits = TypedDigit(@, DigitVal(key), 6)]
        ELSE IF g.focused = "total"
        THEN IF key = "backspace"
             THEN [h EXCEPT !.total_digits = Backspaced(@),
                            !.total_unlimited =
                                IF Backspaced(g.total_digits) = None
                                THEN TRUE ELSE @]
             ELSE [h EXCEPT !.total_unlimited = FALSE,
                            !.total_digits = TypedDigit(@, DigitVal(key), 6)]
        ELSE IF key = "backspace"
             THEN [h EXCEPT !.lives_digits = Backspaced(@),
                            !.lives_unlimited =
                                IF Backspaced(g.lives_digits) = None
                                THEN TRUE ELSE @]
             ELSE [h EXCEPT !.lives_unlimited = FALSE,
                            !.lives_digits = TypedDigit(@, DigitVal(key), 3)]

\* the Play button of the menu: SpaceGame(selected_csv, settings=settings)
PlayClicked(g) ==
    [g EXCEPT !.played = g.settings, !.plays = @ + 1, !.op = "play"]

(***************************************************************************)
(* The launcher with its settings screen as a state machine: the menu      *)
(* opens the screen or starts a game, the screen takes one event at a time.*)
(***************************************************************************)
MaxSettingsEvents == 4
MaxOpens == 2
MaxPlays == 1

SettingsFiles ==
    {NoFile,
     [exists |-> TRUE,
      data |-> [time_between_questions |-> 30, total_time |-> 600,
                lives |-> 5, question_mode |-> "one_each"]]}

Rows == {"tbq", "total", "lives"}
TypedKeys == {"escape", "backspace", "0", "9"}

\* the chips clicked, by position in the row
ChipIndexes == {1}

Presets(f) ==
    IF f = "tbq" THEN tbq_presets
    ELSE IF f = "total" THEN total_presets_min
    ELSE lives_presets

\* Settings.load() followed by the menu loop of run_menu
MenuNew(file) ==
    [screen |-> "menu",
     settings |-> IF file.exists THEN file.data ELSE SettingsDefault,
     file |-> file,
     tbq_digits |-> None, tbq_unit |-> "s", tbq_unlimited |-> TRUE,
     total_digits |-> None, total_unit |-> "m", total_unlimited |-> TRUE,
     lives_digits |-> None, lives_unlimited |-> TRUE,
     mode_cur |-> "loop", focused |-> "none", error |-> FALSE,
     played |-> SettingsDefault, plays |-> 0,
     opens |-> 0, events |-> 0, op |-> "load"]

InitSettings ==
    /\ enemy = EnemyNew([path |-> EmptyPath, speed |-> 10, upp |-> 1])
    /\ call = NoCall
    /\ ticks = 0
    /\ dtc = 0
    /\ shot = NoShot
    /\ \E file \in SettingsFiles : game = MenuNew(file)

OnScreen == game.screen = "settings" /\ game.events < MaxSettingsEvents

Handled(h) ==
    /\ game' = [h EXCEPT !.events = game.events + 1]
    /\ UNCHANGED <<enemy, call, ticks, dtc, shot>>

OpenSettings ==
    /\ game.screen = "menu"
    /\ game.opens < MaxOpens
    /\ game' = ScreenOpened(game)
    /\ UNCHANGED <<enemy, call, ticks, dtc, shot>>

Play ==
    /\ game.screen = "menu"
    /\ game.plays < MaxPlays
    /\ game' = PlayClicked(game)
    /\ UNCHANGED <<enemy, call, ticks, dtc, shot>>

Save ==
    /\ OnScreen
    /\ Handled(SaveClicked(game))

Back ==
    /\ game.screen = "settings"
    /\ game' = BackClicked(game)
    /\ UNCHANGED <<enemy, call, ticks, dtc, shot>>

ClickTextbox ==
    /\ OnScreen
    /\ \E f \in Rows : Handled(TextboxClicked(game, f))

ClickUnit ==
    /\ OnScreen
    /\ \/ \E u \in {"s", "m"} : Handled(TbqUnitClicked(game, u))
       \/ \E u \in {"m", "h"} : Handled(TotalUnitClicked(game, u))

ClickUnlimited ==
    /\ OnScreen
    /\ \E f \in Rows : Handled(UnlimitedClicked(game, f))

ClickChip ==
    /\ OnScreen
    /\ \E f \in Rows : \E i \in ChipIndexes :
            Handled(ChipClicked(game, f, Presets(f)[i]))

ClickOpt ==
    /\ OnScreen
    /\ Handled(OptClicked(game))

Key ==
    /\ OnScreen
    /\ \E key \in TypedKeys : Handled(KeyDown(game, key))

NextSettings ==
    \/ OpenSettings
    \/ Play
    \/ Save
    \/ Back
    \/ ClickTextbox
    \/ ClickUnit
    \/ ClickUnlimited
    \/ ClickChip
    \/ ClickOpt
    \/ Key

SpecSettings == InitSettings /\ [][NextSettings]_vars

\* C23: a Save on the settings screen that fails a validation (the screen
\* stays open with an error) leaves the Settings object and settings.json
\* exactly as they were before the click.
FailedSave(g, h) ==
    g.screen = "settings" /\ h.op = "save" /\ h.events = g.events + 1
        /\ h.screen = "settings"

C23_FailedSaveChangesNothing ==
    [][FailedSave(game, game') =>
        (game'.settings = game.settings /\ game'.file = game.file)]_vars

\* the frame from g to h gives a wrong answer in state asking (the session
\* timer of the frame runs before the click is handled)
TdWrongAnswered(g, h) ==
    /\ h.frame = g.frame + 1
    /\ h.input.click = "wrong"
    /\ g.has_q
    /\ TdSessionTimer(g, h.input.dt).state = "asking"

\* the game when the click of the frame is handled
AtClick(g, h) == TdSessionTimer(g, h.input.dt)

\* w is p with exactly one creature changed: one nearest to the goal, now
\* forced to the goal at max(180, 2.5 * its speed); nothing changed when p
\* has no creature
OneSprinter(p, w) ==
    IF Len(p.creatures) = 0 THEN w.creatures = p.creatures
    ELSE \E i \in 1..Len(p.creatures) :
            /\ \A j \in 1..Len(p.creatures) :
                   p.creatures[i].dist <= p.creatures[j].dist
            /\ w.creatures =
                   [p.creatures EXCEPT ![i] =
                       [@ EXCEPT !.forced = TRUE,
                                 !.speed = Max(SPRINT_SPEED, (5 * @) \div 2)]]

\* w asks the question after the one p asks (the first one after the last)
NextAsked(p, w) ==
    /\ w.state = "asking" /\ w.has_q
    /\ w.question_index = (p.question_index % p.nq) + 1

\* there is no question after the one p asks and w ends the run
RunEnded(p, w) ==
    /\ p.mode = "one_each" /\ p.question_index >= p.nq
    /\ w.state \in Finished /\ ~w.has_q

\* ids of the creatures sprinting to the goal
Sprinters(g) ==
    {g.creatures[i].id : i \in {j \in 1..Len(g.creatures) :
                                    g.creatures[j].forced}}

\* what the frame shows of the answer: a life is gone for each creature
\* that reached the goal in the frame and for nothing else, and no creature
\* but one that was nearest to the goal has begun to sprint
SeenInFrame(g, h) ==
    h.restarted
    \/ /\ h.lives = IF g.lives = NoLimit THEN NoLimit
                    ELSE g.lives - Cardinality(h.arrived)
       /\ \A i \in 1..Len(g.creatures) :
              (g.creatures[i].id \in Sprinters(h) \ Sprinters(g)) =>
                  \A j \in 1..Len(g.creatures) :
                      g.creatures[i].dist <= g.creatures[j].dist

\* the answer as the handler leaves it: one sprinter, lives and score kept
WrongHandled(p, w) ==
    /\ OneSprinter(p, w)
    /\ w.lives = p.lives /\ w.score = p.score

\* C24 as stated: a wrong answer in state asking sends exactly one creature,
\* the one nearest to the goal, into a rush at max(180, 2.5 * its speed),
\* takes no life at answer time, and always advances to the next question.
\* Violated: after the last question of a one_each run there is no next
\* question and the answer ends the run.
C24_WrongAnswerRush ==
    [][TdWrongAnswered(game, game') =>
          LET p == AtClick(game, game')
              w == TdClickWrong(p)
          IN  /\ WrongHandled(p, w)
              /\ SeenInFrame(game, game')
              /\ NextAsked(p, w)]_vars

\* C24, amended: a wrong answer in state asking sends exactly one creature,
\* one nearest to the goal, into a rush at max(180, 2.5 * its speed) (none
\* when there is no creature), takes no life and no score at answer time (a
\* life goes only with a creature that reaches the goal), and then asks the
\* next question, or ends the run when the question was the last one of a
\* one_each run.
C24_WrongAnswerRushOrEnd ==
    [][TdWrongAnswered(game, game') =>
          LET p == AtClick(game, game')
              w == TdClickWrong(p)
          IN  /\ WrongHandled(p, w)
              /\ SeenInFrame(game, game')
              /\ (NextAsked(p, w) \/ RunEnded(p, w))]_vars

\* a wrong answer has just sent a creature sprinting, at no cost of lives,
\* and the next question is asked
C24_Witness ==
    /\ game.state = "asking" /\ game.has_q
    /\ game.input.click = "wrong" /\ ~game.restarted
    /\ game.lives = 2 /\ game.arrived = {}
    /\ \E i \in 1..Len(game.creatures) :
           game.creatures[i].forced /\ game.creatures[i].speed >= SPRINT_SPEED

(***************************************************************************)
(* Specification of a projectile in flight under the frame loop: every     *)
(* frame updates the projectile (space_game/game.py 498 and 666,           *)
(* tower_defense/game.py 551), and the collision code may kill it at any   *)
(* time.  call records what the last step was.                             *)
(***************************************************************************)
BulletFlies ==
    /\ shot.kind \in {"space", "cowboy"}
    /\ shot.alive
    /\ shot' = BulletUpdated(shot)
    /\ call' = [op |-> "update", arg |-> <<0>>]
    /\ UNCHANGED <<enemy, ticks, dtc, game>>

ProjectileFlies ==
    /\ shot.kind = "td"
    /\ shot.alive
    /\ \E ms \in DtMs :
          /\ shot' = ProjectileUpdated(shot, ms)
          /\ call' = [op |-> "update", arg |-> <<ms>>]
    /\ UNCHANGED <<enemy, ticks, dtc, game>>

\* Sprite.kill() of the collision code
ShotHits ==
    /\ shot.alive
    /\ shot' = [shot EXCEPT !.alive = FALSE]
    /\ call' = [op |-> "hit", arg |-> <<>>]
    /\ UNCHANGED <<enemy, ticks, dtc, game>>

NextFlight == BulletFlies \/ ProjectileFlies \/ ShotHits

SpecFlight ==
    InitShots /\ [][NextFlight]_vars /\ WF_vars(BulletFlies \/ ProjectileFlies)

\* length of the step of an update of ms milliseconds, and the distance
\* left to the target point, in Q-ths of a pixel
StepLength(p, ms) == Hypot(Div(p.vx * ms, 1000), Div(p.vy * ms, 1000))

RemainingDistance(p) ==
    Hypot(Fix(p.target[1]) - p.posx, Fix(p.target[2]) - p.posy)

\* the projectile is on the segment from its start to its target point
OnTheWay(p) ==
    Hypot(p.posx - Fix(p.start[1]), p.posy - Fix(p.start[2]))
        + RemainingDistance(p)
      = Hypot(Fix(p.target[1]) - Fix(p.start[1]),
              Fix(p.target[2]) - Fix(p.start[2]))

\* an update of a Bullet destroys it exactly when it has left the bound; an
\* update of a Projectile destroys it exactly when the step is not shorter
\* than the distance left; nothing else but a hit destroys a projectile
DestroyedBy(s, t, c) ==
    IF c.op = "hit" THEN ~t.alive
    ELSE IF s.kind = "td"
      THEN t.alive = (StepLength(s, c.arg[1]) < RemainingDistance(s))
      ELSE t.alive = ~OffScreen(t.cx, t.cy, t.w, t.h)

\* C25: every projectile that is fired is destroyed after finitely many
\* updates; a Bullet by a hit or by leaving the expanded screen bound, a
\* tower-defense Projectile by a hit or on the first update whose step is
\* at least the distance left to its target point; a tower-defense
\* Projectile never moves past its target point.
C25_ProjectilesDestroyed ==
    /\ shot.alive ~> ~shot.alive
    /\ [][shot.alive => DestroyedBy(shot, shot', call')]_vars
    /\ [](shot.kind = "td" => OnTheWay(shot))

\* a tower-defense Projectile was destroyed by an update whose step was
\* exactly the distance left, short of its target point
C25_Witness ==
    /\ shot.kind = "td" /\ ~shot.alive /\ call.op = "update"
    /\ RemainingDistance(shot) > 0
    /\ StepLength(shot, call.arg[1]) = RemainingDistance(shot)
====
